---- MODULE Spec2Model ----
(***************************************************************************)
(* A model of the hierarchical state machine runtime "royal"               *)
(* (class Node, class Context and class HSM of the most complete variant). *)
(*                                                                         *)
(* The runtime is single threaded and reentrant by callback.  The model is *)
(* an interpreter with an explicit call stack: a frame per engine function *)
(* that is suspended in a callback, and a frame per running callback.      *)
(* Callbacks are user code; they are drawn from a table of small scripts   *)
(* (a list of engine calls made on the object handed to the callback, and  *)
(* a return value).  An exception unwinds the whole stack, as no engine    *)
(* function catches anything.                                              *)
(***************************************************************************)
EXTENDS Integers, Sequences, FiniteSets, TLC

\* ------------------------------------------------------------------ bounds
MaxTells == 2      \* top-level tell() calls in one run
MaxUpdates == 1    \* top-level update() calls in one run
MaxProceeds == 1   \* top-level proceed() calls on stored guards in one run
MaxCancels == 1    \* top-level cancel() calls on stored guards in one run
MaxCtx == 7        \* Context objects ever constructed in one run
MaxCalls == 3      \* top-level calls of any kind in one run
MaxGuardRegs == 2   \* guard registrations made one after another on a context
MaxChildren == 2   \* entries of the children array handed to new Node(...)

\* --------------------------------------------------------------- constants
NULL == "null"     \* JavaScript null / undefined
WILD == "*"
BAD == "z"         \* a label that no node declares
Deltas == {16, 33} \* the frame times update() is called with
UNDEF == ""        \* nodeOf[name] of a name that is not a child
ROOT_NAME == "__sentinel__"

\* ------------------------------------------------------------ the Node tree
\* s('L', [a,b,c], [ s('C',[x,y]), only('c', [ s('T',[x,y]) ]) ]) under the
\* sentinel built by HSM's constructor.
StatesOf(n) ==
    CASE n = "L" -> {"a", "b", "c"}
      [] n \in {"C", "T"} -> {"x", "y"}
      [] OTHER -> {}

ChildMap(n) ==
    [s \in StatesOf(n) \cup {WILD} |->
        CASE n = ROOT_NAME /\ s = WILD -> {"L"}
          [] n = "L" /\ s = WILD -> {"C"}
          [] n = "L" /\ s = "c" -> {"T"}
          [] OTHER -> {}]

hasState(n, s) == s \in StatesOf(n) \/ s = WILD

hasTransition(n, from, to) ==
    (hasState(n, from) \/ from = WILD) /\ (hasState(n, to) \/ to = WILD)

\* getChildren with the restriction to states ignored
getChildren_AnyState(n, s) == UNION {ChildMap(n)[q] : q \in DOMAIN ChildMap(n)}

getChildren(n, s) == ChildMap(n)[WILD] \cup ChildMap(n)[s]

\* ------------------------------------------------- the Node constructor
\* new Node(name, states, children) for a node with the states a and b; an
\* entry of children is a Node (here: its name) or a Restrictor.
ParentStates == {"a", "b"}
ChildNames == {"C", "T"}

PlainChild(name) == [type |-> "Node", states |-> <<>>, children |-> <<name>>]
Restrictor(states, children) ==
    [type |-> "Restrictor", states |-> states, children |-> children]

Entries ==
    {PlainChild(n) : n \in ChildNames}
    \cup {Restrictor(st, ch) : st \in {<<"a">>, <<"b">>, <<"a", "b">>},
                               ch \in {<<"C">>, <<"T">>, <<"C", "T">>, <<"C", "C">>}}

Inputs == UNION {[1..n -> Entries] : n \in 0..MaxChildren}

\* The fields as the constructor initialises them.  A Node object of the
\* input is known by its place <<entry, position in the entry>>.
NewNode(children) ==
    [input |-> children, todo |-> children,
     childMap |-> [s \in ParentStates \cup {WILD} |-> [n \in ChildNames |-> <<>>]],
     children |-> <<>>, err |-> "none"]

\* if (child instanceof Restrictor) ... : the two nested loops, from the
\* pair (grandChild, state) they have reached.
RECURSIVE addRestricted(_, _, _)
addRestricted(N, i, pairs) ==
    IF pairs = <<>> THEN N
    ELSE LET j == pairs[1][1]
             state == pairs[1][2]
             name == N.input[i].children[j]
         IN IF N.childMap[state][name] # <<>> THEN [N EXCEPT !.err = "Duplicate"]
            ELSE addRestricted([N EXCEPT !.childMap[state][name] = <<i, j>>,
                                         !.children = Append(@, <<i, j>>)],
                               i, Tail(pairs))

\* The pairs (grandChild, state) in the order of the loops.
RECURSIVE LoopPairs(_, _, _)
LoopPairs(entry, j, k) ==
    IF j > Len(entry.children) THEN <<>>
    ELSE IF k > Len(entry.states) THEN LoopPairs(entry, j + 1, 1)
    ELSE <<<<j, entry.states[k]>>>> \o LoopPairs(entry, j, k + 1)

\* else ... : an unrestricted child
addChild(N, i) ==
    LET name == N.input[i].children[1] IN
    IF N.childMap[WILD][name] # <<>> THEN [N EXCEPT !.err = "Duplicate"]
    ELSE [N EXCEPT !.childMap[WILD][name] = <<i, 1>>,
                   !.children = Append(@, <<i, 1>>)]

\* ------------------------------------------------------------------ values
NoCmd == [source |-> UNDEF, target |-> UNDEF, from |-> NULL, to |-> NULL]

\* A handler object {enter, update, exit}; reg = FALSE is the absent slot.
NoHandler == [reg |-> FALSE, enter |-> "none", update |-> "none", exit |-> "none"]
Handler(e, u, x) == [reg |-> TRUE, enter |-> e, update |-> u, exit |-> x]

\* What a callback returns.
RetVoid == [t |-> "void", update |-> "none", exit |-> "none"]
RetTrue == [t |-> "true", update |-> "none", exit |-> "none"]
RetFn(x) == [t |-> "fn", update |-> "none", exit |-> x]
RetPartial(u, x) == [t |-> "partial", update |-> u, exit |-> x]

GKeys(n) == (StatesOf(n) \cup {WILD}) \X (StatesOf(n) \cup {WILD, BAD})

\* --------------------------------------------------------- callback scripts
Op(op, n, s) == [op |-> op, n |-> n, s |-> s, h |-> NoHandler, f |-> NULL]
OpWhen(n, s, h) == [op |-> "when", n |-> n, s |-> s, h |-> h, f |-> NULL]
OpGuard(n, f, t, sid) ==
    [op |-> "whenGuard", n |-> n, s |-> t, h |-> Handler(sid, "none", "none"), f |-> f]

Script(sid) ==
    CASE sid = "E_nop" -> [ops |-> <<>>, ret |-> RetVoid]
      [] sid = "E_true" -> [ops |-> <<>>, ret |-> RetTrue]
      [] sid = "E_exit" -> [ops |-> <<>>, ret |-> RetFn("X_fn")]
      [] sid = "E_part" -> [ops |-> <<>>, ret |-> RetPartial("U_nop", "X_part")]
      [] sid = "E_toB" -> [ops |-> <<Op("set", UNDEF, "b")>>, ret |-> RetVoid]
      [] sid = "E_coal" -> [ops |-> <<Op("set", UNDEF, "b"), Op("set", UNDEF, "c")>>,
                            ret |-> RetVoid]
      [] sid = "E_kids" -> [ops |-> <<OpWhen("C", "x", Handler("E_nop", "none", "X_reg")),
                                       Op("tell", "C", "x")>>,
                            ret |-> RetVoid]
      [] sid = "E_toC" -> [ops |-> <<Op("set", UNDEF, "c")>>, ret |-> RetVoid]
      [] sid = "E_kidsT" -> [ops |-> <<OpWhen("T", "x", Handler("E_nop", "U_nop", "none")),
                                        OpWhen("T", "y", Handler("E_nop", "none", "none")),
                                        Op("tell", "T", "x")>>,
                             ret |-> RetVoid]
      [] sid = "E_whenT" -> [ops |-> <<OpWhen("T", "x", Handler("E_nop", "none", "none"))>>,
                             ret |-> RetVoid]
      [] sid = "E_regT" -> [ops |-> <<OpWhen("T", "x", Handler("E_nop", "none", "X_reg")),
                                       Op("tell", "T", "x"),
                                       OpWhen("T", "x", Handler("E_nop", "U_nop", "none")),
                                       OpWhen("T", WILD, Handler("E_nop", "none", "none")),
                                       OpWhen("T", BAD, Handler("E_nop", "none", "none"))>>,
                            ret |-> RetVoid]
      [] sid = "E_sib" -> [ops |-> <<OpGuard("T", WILD, WILD, "G_true"),
                                      OpGuard("C", WILD, WILD, "G_true"),
                                      OpWhen("T", "x", Handler("E_nop", "none", "none")),
                                      OpWhen("C", "x", Handler("E_askSib", "none", "none")),
                                      OpWhen("C", "y", Handler("E_nop", "none", "none")),
                                      Op("tell", "C", "x")>>,
                           ret |-> RetVoid]
      [] sid = "E_askSib" -> [ops |-> <<Op("ask", "T", "x"), Op("ask", "C", "y")>>,
                              ret |-> RetVoid]
      \* (the enter callback shared by every state of a node, which keeps its
      \* context in a variable and tells T on the context it kept last time)
      [] sid = "E_keep" -> [ops |-> <<OpWhen("T", "x", Handler("E_nop", "none", "none")),
                                      Op("ktell", "T", "x")>>,
                            ret |-> RetVoid]
      [] sid = "E_toA" -> [ops |-> <<Op("set", UNDEF, "a")>>, ret |-> RetVoid]
      [] sid = "E_green" -> [ops |-> <<OpWhen("C", "x", Handler("E_fwd", "none", "none")),
                                        OpWhen("C", "y", Handler("E_brake", "none", "none")),
                                        OpWhen("T", "x", Handler("E_nop", "none", "none")),
                                        OpWhen("T", "y", Handler("E_nop", "none", "none")),
                                        Op("tell", "C", "x"),
                                        Op("tell", "T", "y"),
                                        Op("set", UNDEF, "b")>>,
                             ret |-> RetVoid]
      [] sid = "E_fwd" -> [ops |-> <<Op("set", UNDEF, "y")>>, ret |-> RetVoid]
      [] sid = "E_brake" -> [ops |-> <<Op("ask", "T", "x")>>, ret |-> RetVoid]
      [] sid = "E_star" -> [ops |-> <<OpWhen("C", WILD, Handler("E_nop", "none", "none")),
                                       Op("tell", "C", WILD)>>,
                            ret |-> RetVoid]
      [] sid = "E_kidsOut" -> [ops |-> <<OpWhen("T", "x", Handler("E_nop", "U_outer", "none")),
                                          Op("tell", "T", "x")>>,
                               ret |-> RetVoid]
      [] sid = "U_outer" -> [ops |-> <<Op("oset", UNDEF, "b")>>, ret |-> RetVoid]
      [] sid = "U_toC" -> [ops |-> <<Op("set", UNDEF, "c")>>, ret |-> RetVoid]
      [] sid = "E_tellT" -> [ops |-> <<Op("tell", "T", "x")>>, ret |-> RetVoid]
      [] sid = "U_tell" -> [ops |-> <<Op("tell", "T", "y")>>, ret |-> RetVoid]
      [] sid = "U_set" -> [ops |-> <<Op("set", UNDEF, "a")>>, ret |-> RetVoid]
      [] sid = "U_ask" -> [ops |-> <<Op("ask", "L", "a")>>, ret |-> RetVoid]
      [] sid = "E_goKept" -> [ops |-> <<Op("kproceed", UNDEF, NULL)>>, ret |-> RetVoid]
      [] sid = "G_true" -> [ops |-> <<>>, ret |-> RetTrue]
      [] sid = "G_store" -> [ops |-> <<Op("gstore", UNDEF, NULL)>>, ret |-> RetVoid]
      [] sid = "G_both" -> [ops |-> <<Op("gproceed", UNDEF, NULL)>>, ret |-> RetTrue]
      [] sid = "G_proceed" -> [ops |-> <<Op("gproceed", UNDEF, NULL)>>, ret |-> RetVoid]
      [] sid = "G_hook" -> [ops |-> <<Op("gstore", UNDEF, NULL)>>, ret |-> RetFn("X_guard")]
      [] OTHER -> [ops |-> <<>>, ret |-> RetVoid]

\* The Guard whose proceed() called the execTransition on top of the stack
\* (0 if execState called it).
ProceedingGuard(M) ==
    IF Len(M.stack) >= 2 /\ M.stack[2].k = "proceed" THEN M.stack[2].g ELSE 0

\* The context the enter callback shared by the states of self's node kept
\* when it was last called before this call (0 if this is its first call).
KeptContext(M, self) ==
    LET K == {i \in DOMAIN M.log : /\ M.log[i].e = "enter" /\ M.log[i].c # self
                                   /\ M.log[i].o = M.ctxs[self].parent
                                   /\ M.log[i].n = M.ctxs[self].node}
    IN IF K = {} THEN 0
       ELSE M.log[CHOOSE i \in K : \A j \in K : j <= i].c

\* What the callback sid returns when called as the enter callback of state s
\* of node n, lg being the log with this call in it. "E_exitOnce" is a
\* closure that returns an exit callback the first time it is called and
\* nothing from then on; every other callback returns the same each time.
EntersOf(lg, n, s) == {j \in DOMAIN lg : lg[j].e = "enter" /\ lg[j].n = n /\ lg[j].s = s}

ScriptRet(sid, lg, n, s) ==
    IF sid = "E_exitOnce"
    THEN IF Cardinality(EntersOf(lg, n, s)) <= 1 THEN RetFn("X_fn") ELSE RetVoid
    ELSE Script(sid).ret

\* ------------------------------------------------------------------- state
VARIABLES
    ctxs,      \* the Context objects ever constructed, by identity (1 = root)
    gh,        \* the guard handler objects ever registered, by identity
    guards,    \* the Guard objects ever constructed, by identity
    stored,    \* the Guard objects user code has kept for a later decision
    stack,     \* the call stack, innermost frame first
    ret,       \* the value the callback that returned last has returned
    err,       \* the error of the last engine call that threw, or "none"
    log,       \* the callbacks invoked so far, in order
    config,    \* the HSMConfig object every context shares
    ev,        \* the engine call that has just returned or thrown
    tells, updates, proceeds, cancels,  \* top-level calls made so far
    newNode    \* the Node object under construction by new Node(...)

machine == <<ctxs, gh, guards, stored, stack, ret, err, log, config, ev,
             tells, updates, proceeds, cancels>>

vars == <<machine, newNode>>

\* ---------------------------------------------------------------- contexts
NewContext(node, parent, state) ==
    LET kids == getChildren(node, state) IN
    [node |-> node, parent |-> parent, state |-> state, machineState |-> "NONE",
     stateOf |-> [c \in kids |-> NULL],
     handlerOf |-> [c \in kids |-> [s \in StatesOf(c) \cup {WILD} |-> NoHandler]],
     guardOf |-> [c \in kids |-> [k \in GKeys(c) |-> 0]],
     queueOf |-> [c \in kids |-> <<>>],
     contextOf |-> [c \in kids |-> 0]]

nodeOf(M, c, name) == IF name \in DOMAIN M.ctxs[c].stateOf THEN name ELSE UNDEF

\* ------------------------------------------------------------------ frames
NoPre == [known |-> FALSE, st |-> NULL, cx |-> 0, qlen |-> 0, ms |-> "NONE",
          guarded |-> FALSE, hasH |-> FALSE, hasEnter |-> FALSE, loglen |-> 0]

NoFrame == [k |-> "none", o |-> 0, n |-> UNDEF, cmd |-> NoCmd, ph |-> "",
            sid |-> "", pc |-> 0, self |-> 0, g |-> 0, op |-> "", s |-> NULL,
            rest |-> <<>>, delta |-> 0, h |-> NoHandler, pre |-> NoPre]

NoEv == [t |-> "none", kind |-> "none", call |-> NoFrame]

Push(M, f) == [M EXCEPT !.stack = <<f>> \o @]
Pop(M) == [M EXCEPT !.stack = Tail(@)]
SetTop(M, f) == [M EXCEPT !.stack = <<f>> \o Tail(@)]

IsCall(f) == f.k = "call"

\* The innermost engine call on the stack (the one an exception leaves first).
RECURSIVE InnerCall(_)
InnerCall(st) ==
    IF st = <<>> THEN NoFrame
    ELSE IF IsCall(Head(st)) THEN Head(st) ELSE InnerCall(Tail(st))

\* throw new Error(...): nothing catches, the whole stack is left.
Throw(M, kind) ==
    [M EXCEPT !.stack = <<>>, !.err = kind,
              !.ev = [t |-> "throw", kind |-> kind, call |-> InnerCall(M.stack)]]

\* Invoking a user callback: the script runs in a frame of its own.
Invoke(M, role, sid, self, g, entry) ==
    [Push(M, [NoFrame EXCEPT !.k = "script", !.op = role, !.sid = sid, !.pc = 1,
                             !.self = self, !.g = g])
     EXCEPT !.log = Append(@, entry)]

LogE(e, o, n, s, c, g, key) ==
    [e |-> e, o |-> o, n |-> n, s |-> s, c |-> c, g |-> g, key |-> key]

\* ------------------------------------------------------------------ guards
\* fromGuards[from] is an object as soon as one guard was registered with that
\* "from"; it is then the only row consulted.
RowExists(fg, from) == \E k \in DOMAIN fg : k[1] = from /\ fg[k] # 0

\* the lookup with the wildcard row consulted first
guardHandler_WildcardFirst(fg, from, to) ==
    LET row == IF RowExists(fg, WILD) THEN WILD
               ELSE IF RowExists(fg, from) THEN from ELSE NULL
    IN IF row = NULL THEN 0
       ELSE IF <<row, WILD>> \in DOMAIN fg /\ fg[<<row, WILD>>] # 0
            THEN fg[<<row, WILD>>]
       ELSE fg[<<row, to>>]

\* guardHandler that finds no guard for a target that is in no state yet
guardHandler_NotFromUnset(fg, from, to) ==
    LET row == IF from = NULL THEN NULL
               ELSE IF RowExists(fg, from) THEN from
               ELSE IF RowExists(fg, WILD) THEN WILD ELSE NULL
    IN IF row = NULL THEN 0
       ELSE IF <<row, to>> \in DOMAIN fg /\ fg[<<row, to>>] # 0 THEN fg[<<row, to>>]
       ELSE fg[<<row, WILD>>]

\* let toGuards = fromGuards[from] || fromGuards['*'];
\* let handler = toGuards[to] || toGuards['*'];        (0: no handler)
guardHandler(fg, from, to) ==
    LET row == IF RowExists(fg, from) THEN from
               ELSE IF RowExists(fg, WILD) THEN WILD ELSE NULL
    IN IF row = NULL THEN 0
       ELSE IF <<row, to>> \in DOMAIN fg /\ fg[<<row, to>>] # 0 THEN fg[<<row, to>>]
       ELSE fg[<<row, WILD>>]

isGuarded(M, o, target, from, to) ==
    guardHandler(M.ctxs[o].guardOf[target], from, to) # 0

\* ------------------------------------------------------- call records
CallFrame(op, o, n, s, g, pre) ==
    [NoFrame EXCEPT !.k = "call", !.op = op, !.o = o, !.n = n, !.s = s, !.g = g,
                    !.pre = pre]

Snapshot(M, o, n, to) ==
    IF o = 0 \/ n \notin DOMAIN M.ctxs[o].stateOf THEN NoPre
    ELSE LET c == M.ctxs[o] IN
         [known |-> TRUE, st |-> c.stateOf[n], cx |-> c.contextOf[n],
          qlen |-> Len(c.queueOf[n]), ms |-> c.machineState,
          guarded |-> hasState(n, to) /\ isGuarded(M, o, n, c.stateOf[n], to),
          hasH |-> hasState(n, to) /\ c.handlerOf[n][to].reg,
          hasEnter |-> hasState(n, to) /\ c.handlerOf[n][to].enter # "none",
          loglen |-> Len(M.log)]

\* ------------------------------------------------------------ registration
\* Context.when(name, state, handlerOrFunc)
WhenState(M, c, name, state, h) ==
    LET target == nodeOf(M, c, name)
        call == [CallFrame("when", c, name, state, 0, Snapshot(M, c, name, state))
                 EXCEPT !.h = h]
    IN IF target = UNDEF THEN Throw(Push(M, call), "UnknownChild")
       ELSE IF ~hasState(target, state) THEN Throw(Push(M, call), "UnknownState")
       ELSE [M EXCEPT !.ctxs[c].handlerOf[target][state] = h,
                      !.ev = [t |-> "return", kind |-> "none", call |-> call]]

\* The record of a call when(name, {from: to}, handlerOrFunc).
GuardCall(M, c, name, from, to, h) ==
    [CallFrame("whenGuard", c, name, to, 0, Snapshot(M, c, name, to))
     EXCEPT !.h = h, !.cmd = [NoCmd EXCEPT !.from = from, !.to = to]]

\* the registration with the test of the transition left out
WhenGuard_Unchecked(M, c, name, from, to, h) ==
    LET target == nodeOf(M, c, name)
        call == GuardCall(M, c, name, from, to, h)
    IN IF target = UNDEF \/ <<from, to>> \notin GKeys(name)
       THEN Throw(Push(M, call), "UnknownChild")
       ELSE [M EXCEPT !.gh = Append(@, [enter |-> h.enter, update |-> h.update,
                                         exit |-> h.exit, key |-> <<from, to>>]),
                      !.ctxs[c].guardOf[target][<<from, to>>] = Len(M.gh) + 1,
                      !.ev = [t |-> "return", kind |-> "none", call |-> call]]

\* Context.when(name, {from: to}, handlerOrFunc)
WhenGuard(M, c, name, from, to, h) ==
    LET target == nodeOf(M, c, name)
        call == GuardCall(M, c, name, from, to, h)
    IN IF target = UNDEF THEN Throw(Push(M, call), "UnknownChild")
       ELSE IF ~hasTransition(target, from, to) /\ from # WILD
            THEN Throw(Push(M, call), "InvalidTransition")
       ELSE LET hid == Len(M.gh) + 1 IN
            [M EXCEPT !.gh = Append(@, [enter |-> h.enter, update |-> h.update,
                                         exit |-> h.exit, key |-> <<from, to>>]),
                      !.ctxs[c].guardOf[target][<<from, to>>] = hid,
                      !.ev = [t |-> "return", kind |-> "none", call |-> call]]

\* ------------------------------------------------------- execTransition
\* (self keeps, for the log, the context the target had when the call began)
TransFrame(o, cmd, ph, old) ==
    [NoFrame EXCEPT !.k = "trans", !.o = o, !.n = cmd.target, !.cmd = cmd, !.ph = ph,
                    !.self = old]

\* The enter callback has returned (or there is none): wire its result.
TransAfterEnter(M) ==
    LET f == Head(M.stack)
        t == f.cmd.target
        to == f.cmd.to
        M1 == [M EXCEPT !.ctxs[f.o].machineState = "NONE"]
        r == M.ret
    IN IF r.t \in {"true", "false"} THEN Throw(M1, "TypeError")
       ELSE IF r.t = "partial"
            THEN Pop([M1 EXCEPT !.ctxs[f.o].handlerOf[t][to].update = r.update,
                                !.ctxs[f.o].handlerOf[t][to].exit = r.exit])
       ELSE IF r.t = "fn"
            THEN Pop([M1 EXCEPT !.ctxs[f.o].handlerOf[t][to].exit = r.exit])
       ELSE Pop(M1)

\* the test with config.requireHandler ignored
missingHandler_NeverRequired(M, newHandler) == FALSE

\* if (!newHandler && this.config.requireHandler)
missingHandler(M, newHandler) == ~newHandler.reg /\ M.config.requireHandler

\* execTransition that hands the context of the state's last occupancy back
\* when the target enters the state it is in.
TransEnter_ReusesContext(M) ==
    LET f == Head(M.stack)
        o == f.o
        t == f.cmd.target
        to == f.cmd.to
        newHandler == M.ctxs[o].handlerOf[t][to]
        id == Len(M.ctxs) + 1
        old == M.ctxs[o].stateOf[t]
        \* The line console.log writes under config.debug is kept as a log entry,
        \* with the state and context the target leaves, whether that state
        \* has an exit callback, and the fromState of the command.
        leaves == <<old, f.self,
                    old # NULL /\ M.ctxs[o].handlerOf[t][old].exit # "none",
                    f.cmd.from, ProceedingGuard(M)>>
        M1 == [M EXCEPT !.ctxs = Append([@ EXCEPT ![o].machineState = "ENTER",
                                                  ![o].contextOf[t] = id,
                                                  ![o].stateOf[t] = to],
                                        IF f.self # 0 /\ M.ctxs[f.self].state = to
                                        THEN M.ctxs[f.self]
                                        ELSE NewContext(t, o, to)),
                        !.log = Append(@, LogE("commit", o, t, to, id, 0, leaves))]
    IN IF missingHandler(M, newHandler) THEN Throw(M, "MissingHandler")
       ELSE IF id > MaxCtx THEN [M EXCEPT !.ok = FALSE]
       ELSE IF ~newHandler.reg THEN Throw(M1, "TypeError")
       ELSE IF newHandler.enter # "none"
            THEN Invoke(SetTop(M1, [f EXCEPT !.ph = "entered"]), "enter",
                        newHandler.enter, id, 0, LogE("enter", o, t, to, id, 0, <<>>))
       ELSE TransAfterEnter([SetTop(M1, [f EXCEPT !.ph = "entered"])
                             EXCEPT !.ret = RetVoid])

\* execTransition that unsets the other children of the context
TransEnter_ResetsSiblings(M) ==
    LET f == Head(M.stack)
        o == f.o
        t == f.cmd.target
        to == f.cmd.to
        newHandler == M.ctxs[o].handlerOf[t][to]
        id == Len(M.ctxs) + 1
        old == M.ctxs[o].stateOf[t]
        \* The line console.log writes under config.debug is kept as a log entry,
        \* with the state and context the target leaves, whether that state
        \* has an exit callback, and the fromState of the command.
        leaves == <<old, f.self,
                    old # NULL /\ M.ctxs[o].handlerOf[t][old].exit # "none",
                    f.cmd.from, ProceedingGuard(M)>>
        M1 == [M EXCEPT !.ctxs = Append([@ EXCEPT ![o].machineState = "ENTER",
                                                  ![o].contextOf[t] = id,
                                                  ![o].stateOf =
                                                      [k \in DOMAIN @ |->
                                                          IF k = t THEN to ELSE NULL]],
                                        NewContext(t, o, to)),
                        !.log = Append(@, LogE("commit", o, t, to, id, 0, leaves))]
    IN IF missingHandler(M, newHandler) THEN Throw(M, "MissingHandler")
       ELSE IF id > MaxCtx THEN [M EXCEPT !.ok = FALSE]
       ELSE IF ~newHandler.reg THEN Throw(M1, "TypeError")
       ELSE IF newHandler.enter # "none"
            THEN Invoke(SetTop(M1, [f EXCEPT !.ph = "entered"]), "enter",
                        newHandler.enter, id, 0, LogE("enter", o, t, to, id, 0, <<>>))
       ELSE TransAfterEnter([SetTop(M1, [f EXCEPT !.ph = "entered"])
                             EXCEPT !.ret = RetVoid])

\* From the lookup of newHandler to the call of its enter callback.
TransEnter(M) ==
    LET f == Head(M.stack)
        o == f.o
        t == f.cmd.target
        to == f.cmd.to
        newHandler == M.ctxs[o].handlerOf[t][to]
        id == Len(M.ctxs) + 1
        old == M.ctxs[o].stateOf[t]
        \* The line console.log writes under config.debug is kept as a log entry,
        \* with the state and context the target leaves, whether that state
        \* has an exit callback, and the fromState of the command.
        leaves == <<old, f.self,
                    old # NULL /\ M.ctxs[o].handlerOf[t][old].exit # "none",
                    f.cmd.from, ProceedingGuard(M)>>
        M1 == [M EXCEPT !.ctxs = Append([@ EXCEPT ![o].machineState = "ENTER",
                                                  ![o].contextOf[t] = id,
                                                  ![o].stateOf[t] = to],
                                        NewContext(t, o, to)),
                        !.log = Append(@, LogE("commit", o, t, to, id, 0, leaves))]
    IN IF missingHandler(M, newHandler) THEN Throw(M, "MissingHandler")
       ELSE IF id > MaxCtx THEN [M EXCEPT !.ok = FALSE]
       ELSE IF ~newHandler.reg THEN Throw(M1, "TypeError")
       ELSE IF newHandler.enter # "none"
            THEN Invoke(SetTop(M1, [f EXCEPT !.ph = "entered"]), "enter",
                        newHandler.enter, id, 0, LogE("enter", o, t, to, id, 0, <<>>))
       ELSE TransAfterEnter([SetTop(M1, [f EXCEPT !.ph = "entered"])
                             EXCEPT !.ret = RetVoid])

\* The exit callback of the old state has returned.
TransAfterExit(M) ==
    LET f == Head(M.stack) IN
    TransEnter([M EXCEPT !.ctxs[f.o].contextOf[f.cmd.target] = 0,
                         !.ctxs[f.o].machineState = "NONE"])

\* execTransition that leaves a state without its exit callback when the
\* target enters the same state again
execTransition_NoExitOnSame(M, o, cmd) ==
    LET t == cmd.target
        oldHandler == IF cmd.from # NULL THEN M.ctxs[o].handlerOf[t][cmd.from]
                      ELSE NoHandler
    IN IF cmd.from # NULL /\ cmd.from # cmd.to /\ oldHandler.reg /\ oldHandler.exit # "none"
       THEN Invoke(Push([M EXCEPT !.ctxs[o].machineState = "EXIT"],
                        TransFrame(o, cmd, "exited", M.ctxs[o].contextOf[t])),
                   "exit", oldHandler.exit, M.ctxs[o].contextOf[t], 0,
                   LogE("exit", o, t, cmd.from, M.ctxs[o].contextOf[t], 0,
                        <<oldHandler.exit>>))
       ELSE TransEnter(Push(M, TransFrame(o, cmd, "enter", M.ctxs[o].contextOf[t])))

execTransition(M, o, cmd) ==
    LET t == cmd.target
        oldHandler == IF cmd.from # NULL THEN M.ctxs[o].handlerOf[t][cmd.from]
                      ELSE NoHandler
    IN IF cmd.from # NULL /\ oldHandler.reg /\ oldHandler.exit # "none"
       THEN Invoke(Push([M EXCEPT !.ctxs[o].machineState = "EXIT"],
                        TransFrame(o, cmd, "exited", M.ctxs[o].contextOf[t])),
                   "exit", oldHandler.exit, M.ctxs[o].contextOf[t], 0,
                   LogE("exit", o, t, cmd.from, M.ctxs[o].contextOf[t], 0,
                        <<oldHandler.exit>>))
       ELSE TransEnter(Push(M, TransFrame(o, cmd, "enter", M.ctxs[o].contextOf[t])))

\* ------------------------------------------------------------ execGuard
\* proceed() that does not put its command in the queue while it executes it
ProceedBody_NoMarker(M) ==
    LET f == Head(M.stack)
        g == M.guards[f.g]
        ph == IF Len(M.ctxs[g.o].queueOf[g.cmd.target]) > 0 THEN "inline" ELSE "pushed"
    IN execTransition(SetTop(M, [f EXCEPT !.ph = ph]), g.o, g.cmd)

\* guard.proceed(), from the queue test on.
ProceedBody(M) ==
    LET f == Head(M.stack)
        g == M.guards[f.g]
        o == g.o
        t == g.cmd.target
        queue == M.ctxs[o].queueOf[t]
    IN IF Len(queue) > 0
       THEN execTransition(SetTop(M, [f EXCEPT !.ph = "inline"]), o, g.cmd)
       ELSE execTransition(
                SetTop([M EXCEPT !.ctxs[o].queueOf[t] = Append(@, g.cmd)],
                       [f EXCEPT !.ph = "pushed"]), o, g.cmd)

\* the guard's exit hook has returned
ProceedAfterExit(M) ==
    LET f == Head(M.stack) IN
    ProceedBody([M EXCEPT !.ctxs[M.guards[f.g].o].machineState = "NONE"])

\* guard.cancel(): its body is empty (the call is noted in the log)
cancel(M, gid) ==
    LET g == M.guards[gid] IN
    [Push(M, CallFrame("cancel", g.o, g.cmd.target, g.cmd.to, gid,
                       Snapshot(M, g.o, g.cmd.target, g.cmd.to)))
     EXCEPT !.log = Append(@, LogE("cancel", g.o, g.cmd.target, g.cmd.to, 0, gid,
                                   M.gh[g.h].key))]

\* guard.proceed()
proceed(M, gid) ==
    LET g == M.guards[gid]
        handler == M.gh[g.h]
        M0 == Push(Push(M, CallFrame("proceed", g.o, g.cmd.target, g.cmd.to, gid,
                                     Snapshot(M, g.o, g.cmd.target, g.cmd.to))),
                   [NoFrame EXCEPT !.k = "proceed", !.g = gid, !.o = g.o,
                                   !.n = g.cmd.target, !.cmd = g.cmd, !.ph = "exited"])
    IN IF handler.exit # "none"
       THEN Invoke([M0 EXCEPT !.ctxs[g.o].machineState = "EXIT"], "gexit",
                   handler.exit, 0, gid,
                   LogE("gexit", g.o, g.cmd.target, g.cmd.to, 0, gid, handler.key))
       ELSE ProceedBody(M0)

\* execTransition has returned to guard.proceed()
ProceedAfterTrans(M) ==
    LET f == Head(M.stack)
        o == f.o
        t == f.n
        q == M.ctxs[o].queueOf[t]
    IN IF f.ph = "inline" THEN Pop(M)
       ELSE SetTop([M EXCEPT !.ctxs[o].queueOf[t] = IF q = <<>> THEN q ELSE Tail(q)],
                   [NoFrame EXCEPT !.k = "run", !.o = o, !.n = t, !.ph = "loop"])

\* execGuard going on to proceed() whatever the guard's enter callback returned
GuardAfterEnter_AlwaysProceeds(M) ==
    LET f == Head(M.stack)
        M1 == [M EXCEPT !.ctxs[f.o].machineState = "NONE"]
    IN proceed(SetTop(M1, [f EXCEPT !.ph = "proceeding"]), f.g)

\* execGuard that leaves the decision to a later proceed() whatever the enter
\* callback returns
GuardAfterEnter_NeverProceeds(M) ==
    LET f == Head(M.stack)
        hid == M.guards[f.g].h
        M1 == [M EXCEPT !.ctxs[f.o].machineState = "NONE"]
        r == M.ret
    IN IF r.t = "partial"
       THEN Pop([M1 EXCEPT !.gh[hid].update = r.update, !.gh[hid].exit = r.exit])
       ELSE IF r.t = "fn" THEN Pop([M1 EXCEPT !.gh[hid].exit = r.exit])
       ELSE Pop(M1)

\* The guard's enter callback has returned (or there is none).
GuardAfterEnter(M) ==
    LET f == Head(M.stack)
        hid == M.guards[f.g].h
        M1 == [M EXCEPT !.ctxs[f.o].machineState = "NONE"]
        r == M.ret
    IN IF r.t = "true" THEN proceed(SetTop(M1, [f EXCEPT !.ph = "proceeding"]), f.g)
       ELSE IF r.t = "false" THEN Throw(M1, "TypeError")
       ELSE IF r.t = "partial"
            THEN Pop([M1 EXCEPT !.gh[hid].update = r.update, !.gh[hid].exit = r.exit])
       ELSE IF r.t = "fn" THEN Pop([M1 EXCEPT !.gh[hid].exit = r.exit])
       ELSE Pop(M1)

\* execGuard that never names the parent: a tell is reported by node name
execGuard_SourceName(M, o, cmd) ==
    LET t == cmd.target
        hid == guardHandler(M.ctxs[o].guardOf[t], cmd.from, cmd.to)
        handler == M.gh[hid]
        fromName == IF cmd.source = t THEN "__self__"
                    ELSE cmd.source
        gid == Len(M.guards) + 1
        M1 == Push([M EXCEPT !.guards = Append(@, [o |-> o, cmd |-> cmd, h |-> hid,
                                                   from |-> fromName]),
                             !.ctxs[o].machineState = "ENTER"],
                   [NoFrame EXCEPT !.k = "guard", !.o = o, !.n = t, !.cmd = cmd,
                                   !.g = gid, !.ph = "entered"])
    IN IF handler.enter # "none"
       THEN Invoke(M1, "genter", handler.enter, 0, gid,
                   LogE("genter", o, t, cmd.to, 0, gid, handler.key))
       ELSE GuardAfterEnter([M1 EXCEPT !.ret = RetVoid])

execGuard(M, o, cmd) ==
    LET t == cmd.target
        hid == guardHandler(M.ctxs[o].guardOf[t], cmd.from, cmd.to)
        handler == M.gh[hid]
        fromName == IF cmd.source = t THEN "__self__"
                    ELSE IF cmd.source = M.ctxs[o].node THEN "__parent__"
                    ELSE cmd.source
        gid == Len(M.guards) + 1
        M1 == Push([M EXCEPT !.guards = Append(@, [o |-> o, cmd |-> cmd, h |-> hid,
                                                   from |-> fromName]),
                             !.ctxs[o].machineState = "ENTER"],
                   [NoFrame EXCEPT !.k = "guard", !.o = o, !.n = t, !.cmd = cmd,
                                   !.g = gid, !.ph = "entered"])
    IN IF handler.enter # "none"
       THEN Invoke(M1, "genter", handler.enter, 0, gid,
                   LogE("genter", o, t, cmd.to, 0, gid, handler.key))
       ELSE GuardAfterEnter([M1 EXCEPT !.ret = RetVoid])

\* ----------------------------------------------------- execState and run
execState(M, o, cmd) ==
    IF M.ctxs[o].stateOf[cmd.target] # cmd.from THEN Throw(M, "StateInconsistency")
    ELSE IF isGuarded(M, o, cmd.target, cmd.from, cmd.to) THEN execGuard(M, o, cmd)
    ELSE execTransition(M, o, cmd)

\* One turn of run()'s loop: the shift that ends the previous turn, the test,
\* and the call of execState.
RunLoop(M) ==
    LET f == Head(M.stack)
        q0 == M.ctxs[f.o].queueOf[f.n]
        q == IF f.ph = "shift" /\ q0 # <<>> THEN Tail(q0) ELSE q0
        M1 == [M EXCEPT !.ctxs[f.o].queueOf[f.n] = q]
    IN IF q = <<>> THEN Pop(M1)
       ELSE execState(SetTop(M1, [f EXCEPT !.ph = "shift"]), f.o, q[1])

run(M, o, target) ==
    Push(M, [NoFrame EXCEPT !.k = "run", !.o = o, !.n = target, !.ph = "loop"])

\* Who called the tell, ask or set in progress: the kind of callback, or
\* "top" for top-level code (for the note of the request in the log).
Caller(M) ==
    IF Len(M.stack) >= 2 /\ M.stack[2].k = "script" THEN M.stack[2].op ELSE "top"

\* What the log keeps of a request: the state the target was in, the node that
\* asked, the callback it asked from and the entry point (tell, ask or set).
ReqKey(M, fromState, source) ==
    <<fromState, source, Caller(M), Head(M.stack).op>>

\* schedule with the drain left out: the command is queued and nothing runs it
schedule_NeverDrains(M, o, source, target, fromState, toState) ==
    IF target = UNDEF THEN Throw(M, "TypeError")
    ELSE IF ~hasState(target, toState) THEN Throw(M, "UnknownState")
    ELSE LET transCommand == [source |-> source, target |-> target,
                              from |-> fromState, to |-> toState]
             queue == M.ctxs[o].queueOf[target]
         IN [M EXCEPT !.ctxs[o].queueOf[target] =
                 IF Len(queue) <= 1 THEN Append(queue, transCommand)
                 ELSE <<queue[1], transCommand>>,
                      !.log = Append(@, LogE("req", o, target, toState, 0, 0,
                                             ReqKey(M, fromState, source)))]

\* schedule that queues every command behind those already pending
schedule_Appends(M, o, source, target, fromState, toState) ==
    IF target = UNDEF THEN Throw(M, "TypeError")
    ELSE IF ~hasState(target, toState) THEN Throw(M, "UnknownState")
    ELSE LET transCommand == [source |-> source, target |-> target,
                              from |-> fromState, to |-> toState]
             queue2 == Append(M.ctxs[o].queueOf[target], transCommand)
             M1 == [M EXCEPT !.ctxs[o].queueOf[target] = queue2,
                             !.log = Append(@, LogE("req", o, target, toState, 0, 0,
                                                    ReqKey(M, fromState, source)))]
         IN IF Len(queue2) = 1 /\ M.ctxs[o].machineState # "UPDATE"
            THEN run(M1, o, target)
            ELSE M1

\* schedule that keeps the older pending command when a third one arrives
schedule_KeepsOlder(M, o, source, target, fromState, toState) ==
    IF target = UNDEF THEN Throw(M, "TypeError")
    ELSE IF ~hasState(target, toState) THEN Throw(M, "UnknownState")
    ELSE LET transCommand == [source |-> source, target |-> target,
                              from |-> fromState, to |-> toState]
             queue == M.ctxs[o].queueOf[target]
             queue2 == IF Len(queue) <= 1 THEN Append(queue, transCommand) ELSE queue
             \* (the request is noted in the log)
             M1 == [M EXCEPT !.ctxs[o].queueOf[target] = queue2,
                             !.log = Append(@, LogE("req", o, target, toState, 0, 0,
                                                    ReqKey(M, fromState, source)))]
         IN IF Len(queue2) = 1 /\ M.ctxs[o].machineState # "UPDATE"
            THEN run(M1, o, target)
            ELSE M1

schedule(M, o, source, target, fromState, toState) ==
    IF target = UNDEF THEN Throw(M, "TypeError")
    ELSE IF ~hasState(target, toState) THEN Throw(M, "UnknownState")
    ELSE LET transCommand == [source |-> source, target |-> target,
                              from |-> fromState, to |-> toState]
             queue == M.ctxs[o].queueOf[target]
             queue2 == IF Len(queue) <= 1 THEN Append(queue, transCommand)
                       ELSE IF Len(queue) = 2 THEN <<queue[1], transCommand>>
                       ELSE queue
             \* (the request is noted in the log)
             M1 == [M EXCEPT !.ctxs[o].queueOf[target] = queue2,
                             !.log = Append(@, LogE("req", o, target, toState, 0, 0,
                                                    ReqKey(M, fromState, source)))]
         IN IF Len(queue2) = 1 /\ M.ctxs[o].machineState # "UPDATE"
            THEN run(M1, o, target)
            ELSE M1

\* ------------------------------------------------------- tell / ask / set
tell(M, c, name, state) ==
    LET target == nodeOf(M, c, name)
        fromState == IF target = UNDEF THEN NULL ELSE M.ctxs[c].stateOf[name]
    IN schedule(Push(M, CallFrame("tell", c, name, state, 0, Snapshot(M, c, name, state))),
                c, M.ctxs[c].node, target, fromState, state)

ask(M, c, name, state) ==
    LET p == M.ctxs[c].parent
        M0 == Push(M, CallFrame("ask", p, name, state, 0, Snapshot(M, p, name, state)))
    IN IF p = 0 THEN Throw(M0, "TypeError")
       ELSE LET target == nodeOf(M, p, name)
                fromState == IF target = UNDEF THEN NULL ELSE M.ctxs[p].stateOf[name]
            IN schedule(M0, p, M.ctxs[c].node, target, fromState, state)

\* set taking the state the context was created for as the fromState
set_OwnState(M, c, state) ==
    LET p == M.ctxs[c].parent
        n == M.ctxs[c].node
        M0 == Push(M, CallFrame("set", p, n, state, 0, Snapshot(M, p, n, state)))
    IN IF p = 0 THEN Throw(M0, "TypeError")
       ELSE schedule(M0, p, n, n, M.ctxs[c].state, state)

set(M, c, state) ==
    LET p == M.ctxs[c].parent
        n == M.ctxs[c].node
        M0 == Push(M, CallFrame("set", p, n, state, 0, Snapshot(M, p, n, state)))
    IN IF p = 0 THEN Throw(M0, "TypeError")
       ELSE schedule(M0, p, n, n, M.ctxs[p].stateOf[n], state)

\* ----------------------------------------------------------------- update
\* update() that visits no child context
ChildSeq_None(node, state) == <<>>

\* for (let name in this.contextOf): the order in which initChild filled it.
ChildSeq(node, state) ==
    LET kids == getChildren(node, state) IN
    SelectSeq(<<"L", "C", "T">>, LAMBDA n : n \in kids)

UpdateFrame(c, rest, delta) ==
    [NoFrame EXCEPT !.k = "update", !.o = c, !.rest = rest, !.ph = "kids",
                    !.delta = delta]

\* One step of Context.update: up to the next call it makes.
UpdateStep(M) ==
    LET f == Head(M.stack)
        c == M.ctxs[f.o]
        live == SelectSeq(f.rest, LAMBDA n : c.contextOf[n] # 0)
    IN IF f.ph = "kids" /\ live # <<>>
       THEN Push(SetTop(M, [f EXCEPT !.rest = Tail(live)]),
                 UpdateFrame(c.contextOf[Head(live)],
                             LET k == M.ctxs[c.contextOf[Head(live)]]
                             IN ChildSeq(k.node, k.state),
                             f.delta))
       ELSE IF f.ph = "kids"
       THEN IF c.parent = 0 THEN Pop(M)
            ELSE LET handler == M.ctxs[c.parent].handlerOf[c.node][c.state] IN
                 IF ~handler.reg \/ handler.update = "none" THEN Pop(M)
                 ELSE Invoke(SetTop([M EXCEPT !.ctxs[f.o].machineState = "UPDATE"],
                                    [f EXCEPT !.ph = "called", !.rest = <<>>]),
                             "update", handler.update, f.o, 0,
                             LogE("update", c.parent, c.node, c.state, f.o, 0,
                                  <<f.delta>>))
       ELSE LET M1 == [M EXCEPT !.ctxs[f.o].machineState = "NONE"] IN
            IF Len(M.ctxs[c.parent].queueOf[c.node]) > 0
            THEN SetTop(M1, [NoFrame EXCEPT !.k = "run", !.o = c.parent,
                                            !.n = c.node, !.ph = "loop"])
            ELSE Pop(M1)

update(M, c, delta) ==
    Push(Push(M, [CallFrame("update", c, UNDEF, NULL, 0,
                            [NoPre EXCEPT !.loglen = Len(M.log)])
                  EXCEPT !.delta = delta]),
         UpdateFrame(c, ChildSeq(M.ctxs[c].node, M.ctxs[c].state), delta))

\* ---------------------------------------------------------------- scripts
\* One statement of a running callback, or its return.
ScriptStep(M) ==
    LET f == Head(M.stack)
        sc == Script(f.sid)
    IN IF f.pc > Len(sc.ops)
       THEN [Pop(M) EXCEPT !.ret = IF f.op = "enter"
                                   THEN ScriptRet(f.sid, M.log, M.ctxs[f.self].node,
                                                  M.ctxs[f.self].state)
                                   ELSE sc.ret]
       ELSE LET op == sc.ops[f.pc]
                M1 == SetTop(M, [f EXCEPT !.pc = @ + 1])
            IN CASE op.op = "tell" -> tell(M1, f.self, op.n, op.s)
                 [] op.op = "ask" -> ask(M1, f.self, op.n, op.s)
                 [] op.op = "set" -> set(M1, f.self, op.s)
                 \* (set on the context of the callback that registered this
                 \* one, which the closure has kept)
                 [] op.op = "oset" -> set(M1, M1.ctxs[f.self].parent, op.s)
                 \* (tell on the context kept by an earlier call, if any)
                 [] op.op = "ktell" ->
                        IF KeptContext(M1, f.self) = 0 THEN M1
                        ELSE tell(M1, KeptContext(M1, f.self), op.n, op.s)
                 [] op.op = "when" -> WhenState(M1, f.self, op.n, op.s, op.h)
                 [] op.op = "whenGuard" -> WhenGuard(M1, f.self, op.n, op.f, op.s, op.h)
                 [] op.op = "gstore" -> [M1 EXCEPT !.stored = @ \cup {f.g}]
                 [] op.op = "gproceed" -> proceed(M1, f.g)
                 \* (proceed() of a Guard object kept earlier, if there is one)
                 [] op.op = "kproceed" ->
                        IF M1.stored = {} THEN M1
                        ELSE proceed(M1, CHOOSE g \in M1.stored :
                                             \A h \in M1.stored : g <= h)
                 [] OTHER -> M1

\* ------------------------------------------------- the machine as a record
Cur ==
    [ctxs |-> ctxs, gh |-> gh, guards |-> guards, stored |-> stored,
     stack |-> stack, ret |-> ret, err |-> err, log |-> log, config |-> config,
     ev |-> NoEv, ok |-> TRUE]

Commit(N) ==
    /\ N.ok
    /\ ctxs' = N.ctxs /\ gh' = N.gh /\ guards' = N.guards /\ stored' = N.stored
    /\ stack' = N.stack /\ ret' = N.ret /\ err' = N.err /\ log' = N.log
    /\ config' = N.config /\ ev' = N.ev
    /\ UNCHANGED newNode

TopIs(k) == stack # <<>> /\ Head(stack).k = k

\* ------------------------------------------------------------------- Init
\* HSM.create(tree): the sentinel's context, and the shared config object.
Fresh(requireHandler) ==
    [ctxs |-> <<NewContext(ROOT_NAME, 0, WILD)>>, gh |-> <<>>, guards |-> <<>>,
     stored |-> {}, stack |-> <<>>, ret |-> RetVoid, err |-> "none", log |-> <<>>,
     config |-> [debug |-> FALSE, requireHandler |-> requireHandler],
     ev |-> NoEv, ok |-> TRUE]

\* The handlers a program registers on the root for L before it starts.
EnterChoices(s) ==
    CASE s = "a" -> {NoHandler, Handler("E_nop", "none", "none"),
                     Handler("E_toB", "none", "none"),
                     Handler("E_coal", "none", "none"), Handler("E_exit", "none", "none")}
      [] s = "b" -> {NoHandler, Handler("E_nop", "none", "X_reg"),
                     Handler("E_kids", "none", "none")}
      [] OTHER -> {NoHandler, Handler("E_part", "none", "none")}

\* Programs that work in update callbacks and on the restricted child T, and
\* the traffic light (a: red, c: green, b: yellow, T: the car).
TickChoices(s) ==
    CASE s = "a" -> {Handler("E_nop", "none", "none"),
                     Handler("E_whenT", "none", "none"),
                     Handler("E_tellT", "none", "none"),
                     Handler("E_toC", "none", "none")}
      [] s = "b" -> {NoHandler, Handler("E_nop", "none", "X_reg"),
                     Handler("E_true", "U_nop", "X_reg")}
      [] OTHER -> {Handler("E_kidsT", "U_tell", "none"),
                   Handler("E_regT", "none", "none"),
                   Handler("E_kidsT", "U_set", "none"),
                   Handler("E_nop", "U_ask", "none"),
                   Handler("E_sib", "none", "none"),
                   Handler("E_toB", "none", "none")}

GReg(f, t, sid) == [f |-> f, t |-> t, h |-> Handler(sid, "none", "none")]

GuardChoices ==
    { <<>>,
      <<GReg("a", "b", "G_store")>>,
      <<GReg("a", "b", "G_hook")>>,
      <<[f |-> "a", t |-> "b", h |-> Handler("G_true", "none", "X_guard")]>>,
      <<GReg(WILD, WILD, "G_proceed")>>,
      <<GReg("a", "b", "G_true"), GReg("a", WILD, "G_true"),
        GReg(WILD, "b", "G_true"), GReg(WILD, WILD, "G_true")>>,
      <<GReg("a", "c", "G_true"), GReg(WILD, "b", "G_true")>> }

\* Programs whose guard for a -> b keeps the Guard object, and whose state b
\* asks for more transitions of L from its enter callback.
PendingChoices(s) ==
    CASE s = "a" -> {Handler("E_nop", "none", "none"), Handler("E_toB", "none", "none")}
      [] s = "b" -> {Handler("E_toC", "none", "none"), Handler("E_coal", "none", "none")}
      [] OTHER -> {NoHandler, Handler("E_part", "none", "none"),
                   Handler("E_goKept", "none", "none")}

\* The demo program: LIGHT is L with a = red, b = yellow, c = green; CAR is C
\* with x = forward, y = brake; PERSON is T with x = walk, y = idle.
DemoChoices(s) ==
    CASE s = "a" -> {Handler("E_toC", "none", "none")}
      [] s = "b" -> {Handler("E_toA", "none", "none")}
      [] OTHER -> {Handler("E_green", "none", "none")}

\* A program whose state a returns an exit callback from its first enter
\* only and leaves for c on a tick, and whose state b goes back to a.
OccupancyChoices(s) ==
    CASE s = "a" -> {Handler("E_exitOnce", "U_toC", "none")}
      [] s = "b" -> {Handler("E_toA", "none", "none")}
      [] OTHER -> {Handler("E_nop", "none", "none")}

\* A program whose state c tells its child C the wildcard, and one whose
\* state c gives its child T an update callback that moves L itself.
WildcardChoices(s) ==
    CASE s = "c" -> {Handler("E_star", "none", "none")}
      [] OTHER -> {Handler("E_nop", "none", "none")}

OuterChoices(s) ==
    CASE s = "c" -> {Handler("E_kidsOut", "U_nop", "none")}
      [] s = "b" -> {Handler("E_nop", "none", "X_reg")}
      [] OTHER -> {Handler("E_nop", "none", "none")}

\* A program whose states share one enter callback, which keeps the context
\* it is given.
RetainChoices(s) == {Handler("E_keep", "none", "none")}

AllChoices ==
    UNION {EnterChoices(s) \cup TickChoices(s) \cup PendingChoices(s) \cup DemoChoices(s)
              \cup OccupancyChoices(s) \cup RetainChoices(s)
              \cup WildcardChoices(s) \cup OuterChoices(s) : s \in StatesOf("L")}

\* A guard for entering b from b that keeps the Guard object.
ReentryGuard == <<GReg("b", "b", "G_store")>>

\* A guard on the transition from a to b whose enter callback calls proceed()
\* and then returns true.
TwiceGuard == <<GReg("a", "b", "G_both")>>

\* The programs looked at: any guards with the first family of handlers, no
\* guards with the second, the storing guard with the third, the guard that
\* proceeds at once with the demo program, the guard on re-entry and the
\* guard that proceeds twice with plain handlers, and no guard with the
\* programs of the two occupancies, of the kept context, of the wildcard
\* tell and of the update callback that moves its parent's node.
Programs ==
    {p \in [gs : GuardChoices \cup {ReentryGuard, TwiceGuard},
            hs : [StatesOf("L") -> AllChoices]] :
        \/ p.gs \in GuardChoices /\ \A s \in StatesOf("L") : p.hs[s] \in EnterChoices(s)
        \/ p.gs = <<>> /\ \A s \in StatesOf("L") : p.hs[s] \in TickChoices(s)
        \/ /\ p.gs = <<GReg("a", "b", "G_store")>>
           /\ \A s \in StatesOf("L") : p.hs[s] \in PendingChoices(s)
        \/ /\ p.gs = <<GReg(WILD, WILD, "G_proceed")>>
           /\ \A s \in StatesOf("L") : p.hs[s] \in DemoChoices(s)
        \/ /\ p.gs \in {ReentryGuard, TwiceGuard}
           /\ p.hs = [s \in StatesOf("L") |-> Handler("E_nop", "none", "X_reg")]
        \/ p.gs = <<>> /\ \A s \in StatesOf("L") : p.hs[s] \in OccupancyChoices(s)
        \/ p.gs = <<>> /\ \A s \in StatesOf("L") : p.hs[s] \in RetainChoices(s)
        \/ p.gs = <<>> /\ \A s \in StatesOf("L") : p.hs[s] \in WildcardChoices(s)
        \/ p.gs = <<>> /\ \A s \in StatesOf("L") : p.hs[s] \in OuterChoices(s)}

RECURSIVE RegisterGuards(_, _)
RegisterGuards(M, regs) ==
    IF regs = <<>> THEN M
    ELSE RegisterGuards(WhenGuard(M, 1, "L", Head(regs).f, Head(regs).t, Head(regs).h),
                        Tail(regs))

RegisterStates(M, hs) ==
    LET W(N, s) == IF hs[s].reg THEN WhenState(N, 1, "L", s, hs[s]) ELSE N
    IN W(W(W(M, "a"), "b"), "c")

\* The machine after program p has registered, with config.requireHandler rh.
Started(rh, p) ==
    /\ LET M == RegisterGuards(RegisterStates(Fresh(rh), p.hs), p.gs) IN
       /\ ctxs = M.ctxs /\ gh = M.gh /\ guards = M.guards /\ stored = M.stored
       /\ stack = M.stack /\ ret = M.ret /\ err = M.err /\ log = M.log
       /\ config = M.config /\ ev = NoEv
    /\ tells = 0 /\ updates = 0 /\ proceeds = 0 /\ cancels = 0
    /\ newNode = NewNode(<<>>)

Init == \E rh \in BOOLEAN, p \in Programs : Started(rh, p)

\* The programs whose callbacks ask for transitions of their own node or of
\* the children of their context: the second and third family.
RequestingPrograms ==
    {p \in Programs : \E s \in StatesOf("L") : p.hs[s] \notin EnterChoices(s)}

RequestingInit == \E rh \in BOOLEAN, p \in RequestingPrograms : Started(rh, p)

\* --------------------------------------------------------------- actions
Budget == <<tells, updates, proceeds, cancels>>

\* Top-level code is idle and may make one more call.
TopLevel == stack = <<>> /\ tells + updates + proceeds + cancels < MaxCalls

\* top-level code calls hsm.context.tell('L', s)
EnvTell ==
    /\ TopLevel /\ tells < MaxTells
    /\ \E s \in StatesOf("L") \cup {BAD} : Commit(tell(Cur, 1, "L", s))
    /\ tells' = tells + 1 /\ UNCHANGED <<updates, proceeds, cancels>>

\* top-level code calls hsm.context.update(delta)
EnvUpdate ==
    /\ TopLevel /\ updates < MaxUpdates
    /\ \E delta \in Deltas : Commit(update(Cur, 1, delta))
    /\ updates' = updates + 1 /\ UNCHANGED <<tells, proceeds, cancels>>

\* top-level code (a timer, say) calls proceed() on a Guard it has kept
EnvProceed ==
    /\ TopLevel /\ proceeds < MaxProceeds
    /\ \E g \in stored : Commit(proceed(Cur, g))
    /\ proceeds' = proceeds + 1 /\ UNCHANGED <<tells, updates, cancels>>

\* top-level code calls cancel() on a Guard it has kept
EnvCancel ==
    /\ TopLevel /\ cancels < MaxCancels
    /\ \E g \in stored : Commit(cancel(Cur, g))
    /\ cancels' = cancels + 1 /\ UNCHANGED <<tells, updates, proceeds>>

\* tell, ask, set, proceed or update returns to its caller
Return ==
    /\ TopIs("call")
    /\ Commit([Pop(Cur) EXCEPT !.ev = [t |-> "return", kind |-> "none",
                                       call |-> Head(stack)]])
    /\ UNCHANGED Budget

Run == TopIs("run") /\ Commit(RunLoop(Cur)) /\ UNCHANGED Budget

ExitReturns ==
    /\ TopIs("trans") /\ Head(stack).ph = "exited"
    /\ Commit(TransAfterExit(Cur)) /\ UNCHANGED Budget

EnterReturns ==
    /\ TopIs("trans") /\ Head(stack).ph = "entered"
    /\ Commit(TransAfterEnter(Cur)) /\ UNCHANGED Budget

GuardEnterReturns ==
    /\ TopIs("guard")
    /\ Commit(IF Head(stack).ph = "entered" THEN GuardAfterEnter(Cur) ELSE Pop(Cur))
    /\ UNCHANGED Budget

ProceedContinues ==
    /\ TopIs("proceed")
    /\ Commit(IF Head(stack).ph = "exited" THEN ProceedAfterExit(Cur)
              ELSE ProceedAfterTrans(Cur))
    /\ UNCHANGED Budget

Callback == TopIs("script") /\ Commit(ScriptStep(Cur)) /\ UNCHANGED Budget

Update == TopIs("update") /\ Commit(UpdateStep(Cur)) /\ UNCHANGED Budget

Next ==
    \/ EnvTell \/ EnvUpdate \/ EnvProceed \/ EnvCancel
    \/ Return \/ Run \/ ExitReturns \/ EnterReturns
    \/ GuardEnterReturns \/ ProceedContinues \/ Callback \/ Update

Spec == Init /\ [][Next]_vars

\* The same machine, started by a program of the second or third family.
RequestingSpec == RequestingInit /\ [][Next]_vars

\* ------------------------------------------------ constructing a Node
\* One turn of the constructor's loop over children.
NextEntry == Len(newNode.input) - Len(newNode.todo) + 1

AddChild ==
    /\ newNode.err = "none" /\ newNode.todo # <<>> /\ Head(newNode.todo).type = "Node"
    /\ newNode' = [addChild(newNode, NextEntry) EXCEPT !.todo = Tail(@)]
    /\ UNCHANGED machine

AddRestricted ==
    /\ newNode.err = "none" /\ newNode.todo # <<>> /\ Head(newNode.todo).type = "Restrictor"
    /\ newNode' = [addRestricted(newNode, NextEntry, LoopPairs(Head(newNode.todo), 1, 1))
                    EXCEPT !.todo = Tail(@)]
    /\ UNCHANGED machine

NodeInit ==
    /\ \E children \in Inputs : newNode = NewNode(children)
    /\ LET M == Fresh(FALSE) IN
       /\ ctxs = M.ctxs /\ gh = M.gh /\ guards = M.guards /\ stored = M.stored
       /\ stack = M.stack /\ ret = M.ret /\ err = M.err /\ log = M.log
       /\ config = M.config /\ ev = NoEv
    /\ tells = 0 /\ updates = 0 /\ proceeds = 0 /\ cancels = 0

NodeNext == AddChild \/ AddRestricted

NodeSpec == NodeInit /\ [][NodeNext]_vars

\* ------------------------------------------------ registration on its own
\* A program that only registers on the root context of a new machine: the
\* names are the child L and T (no child of the root), the labels two states
\* of L, the wildcard and a label L does not declare. It registers at most
\* one state handler.
RegNames == {"L", "T"}
RegLabels == {"a", "b", WILD, BAD}

RegisterGuard ==
    /\ stack = <<>> /\ Len(gh) < MaxGuardRegs
    /\ \E name \in RegNames, from \in RegLabels, to \in RegLabels :
          Commit(WhenGuard(Cur, 1, name, from, to, Handler("G_true", "none", "none")))
    /\ UNCHANGED Budget

RegisterState ==
    /\ stack = <<>> /\ Len(gh) < MaxGuardRegs
    /\ \A s \in DOMAIN ctxs[1].handlerOf["L"] : ~ctxs[1].handlerOf["L"][s].reg
    /\ \E name \in RegNames, state \in RegLabels :
          Commit(WhenState(Cur, 1, name, state, Handler("E_nop", "none", "none")))
    /\ UNCHANGED Budget

RegInit ==
    /\ LET M == Fresh(FALSE) IN
       /\ ctxs = M.ctxs /\ gh = M.gh /\ guards = M.guards /\ stored = M.stored
       /\ stack = M.stack /\ ret = M.ret /\ err = M.err /\ log = M.log
       /\ config = M.config /\ ev = NoEv
    /\ tells = 0 /\ updates = 0 /\ proceeds = 0 /\ cancels = 0
    /\ newNode = NewNode(<<>>)

RegNext == RegisterGuard \/ RegisterState

RegSpec == RegInit /\ [][RegNext]_vars

\* ======================================================================
\* Properties
\* ======================================================================
\* The positions of the log, after position k, that tell of event e of child n
\* of context o.
Events(e, o, n, k) ==
    {i \in (k + 1)..Len(log) : log[i].e = e /\ log[i].o = o /\ log[i].n = n}

Min(S) == CHOOSE i \in S : \A j \in S : i <= j
Max(S) == CHOOSE i \in S : \A j \in S : i >= j

\* tell(n, s) has just returned to its caller; it was called with n's queue
\* empty, on a context not marked as updating, with no guard matching and a
\* handler with an enter callback registered for s.
TellOfC1 ==
    /\ ev.t = "return" /\ ev.call.op = "tell" /\ ev.call.pre.known
    /\ ev.call.pre.qlen = 0 /\ ev.call.pre.ms # "UPDATE"
    /\ ~ev.call.pre.guarded /\ ev.call.pre.hasEnter

\* C1 as stated: when tell(child, toState) is called with the child's queue
\* empty, outside an update callback, with no matching guard and a handler for
\* toState, then when tell returns the child is in toState, with a live
\* context, toState's enter callback has run exactly once and the queue is
\* empty.
C1_AsStated ==
    TellOfC1 =>
        LET f == ev.call
            c == ctxs[f.o]
        IN /\ c.stateOf[f.n] = f.s
           /\ c.contextOf[f.n] # 0
           /\ c.queueOf[f.n] = <<>>
           /\ Cardinality({i \in Events("enter", f.o, f.n, f.pre.loglen) :
                              log[i].s = f.s}) = 1

\* C1 amended: under the same conditions, when tell returns the queue is empty
\* and the transition to toState was committed on the child and its enter
\* callback ran; if no callback requested a further transition of
\* the child (so that it is the only one committed during the call), the child
\* is in toState, its live context is the one created for toState and the
\* enter callback of toState has run exactly once.
C1_TellCommits ==
    TellOfC1 =>
        LET f == ev.call
            c == ctxs[f.o]
            commits == Events("commit", f.o, f.n, f.pre.loglen)
            enters == {i \in Events("enter", f.o, f.n, f.pre.loglen) : log[i].s = f.s}
        IN /\ c.queueOf[f.n] = <<>>
           /\ commits # {}
           /\ \E i \in commits : log[i].s = f.s
           /\ enters # {}
           /\ Cardinality(commits) = 1 =>
                /\ c.stateOf[f.n] = f.s
                /\ c.contextOf[f.n] = log[Min(commits)].c
                /\ ctxs[c.contextOf[f.n]].state = f.s
                /\ ctxs[c.contextOf[f.n]].node = f.n
                /\ Cardinality(enters) = 1

\* A tell of C1 that was the only transition of its call has returned, from a
\* callback (on a child) or to top-level code.
C1_Witness ==
    /\ TellOfC1
    /\ Cardinality(Events("commit", ev.call.o, ev.call.n, ev.call.pre.loglen)) = 1
    /\ ctxs[ev.call.o].stateOf[ev.call.n] = ev.call.s
    /\ ev.call.o # 1

\* ----------------------------------------------------------------- C2
\* The states of the transitions committed on child n of context o after log
\* position k, in order.
RECURSIVE CommittedFrom(_, _, _)
CommittedFrom(o, n, i) ==
    IF i > Len(log) THEN <<>>
    ELSE IF log[i].e = "commit" /\ log[i].o = o /\ log[i].n = n
         THEN <<log[i].s>> \o CommittedFrom(o, n, i + 1)
         ELSE CommittedFrom(o, n, i + 1)

Committed(o, n, k) == CommittedFrom(o, n, k + 1)

\* A tell that was executed at once has returned, and while the enter callback
\* of its transition was running exactly two further requests were made on
\* the same target, the last of them unguarded.
CoalescedTell ==
    /\ TellOfC1
    /\ LET f == ev.call
           reqs == Events("req", f.o, f.n, f.pre.loglen)
           commits == Events("commit", f.o, f.n, f.pre.loglen)
       IN /\ Cardinality(reqs) = 3
          /\ \A j \in commits : j = Min(commits) \/ j > Max(reqs)
          /\ ~isGuarded([ctxs |-> ctxs], f.o, f.n, f.s, log[Max(reqs)].s)

LeavesStateWithExit(i) ==
    log[i].e = "commit" /\ log[i].key[1] # NULL /\ log[i].key[3]

\* The exit callback of the state left at position i ran for that transition:
\* after the previous transition of the same child and before this one.
OldExitRan(i) ==
    \E j \in 1..(i - 1) :
        /\ log[j].e = "exit" /\ log[j].o = log[i].o /\ log[j].n = log[i].n
        /\ log[j].s = log[i].key[1]
        /\ \A k \in (j + 1)..(i - 1) :
              ~(log[k].e = "commit" /\ log[k].o = log[i].o /\ log[k].n = log[i].n)

\* The enter callback of the context created at log position i has run.
NewEnterRan(i) ==
    \E j \in (i + 1)..Len(log) : log[j].e = "enter" /\ log[j].c = log[i].c

\* C3: for every committed transition of a target from an old state to a new
\* state, the exit callback of the old state runs strictly before the enter
\* callback of the new state: whenever the enter callback of the new context
\* has run and the state left has an exit callback, that exit callback ran
\* for this transition, earlier in the log.
C3_ExitBeforeEnter ==
    \A i \in DOMAIN log :
        LeavesStateWithExit(i) /\ NewEnterRan(i) => OldExitRan(i)

\* ----------------------------------------------------------------- C4
\* The children of context k that are in a state with an exit callback.
LiveChildrenWithExit(k) ==
    {m \in DOMAIN ctxs[k].stateOf :
        /\ ctxs[k].stateOf[m] # NULL
        /\ ctxs[k].handlerOf[m][ctxs[k].stateOf[m]].exit # "none"}

\* C4: when a transition takes a target out of its old state to another, the exit
\* callbacks of the current states of the live children of the old target
\* context run as part of that transition, before the new context's enter
\* callback: once that enter callback has run, every child of the old context
\* that was in a state with an exit callback has had it run.
C4_DescendantsExit ==
    \A i \in DOMAIN log :
        (/\ log[i].e = "commit" /\ log[i].key[2] # 0
         /\ log[i].key[1] # log[i].s /\ NewEnterRan(i)) =>
            \A m \in LiveChildrenWithExit(log[i].key[2]) :
                \E j \in 1..(i - 1) :
                    /\ log[j].e = "exit" /\ log[j].o = log[i].key[2]
                    /\ log[j].n = m /\ log[j].s = ctxs[log[i].key[2]].stateOf[m]

\* ------------------------------------------------------------ C5, C6
\* A guard is registered on child n of context o under the key (from, to).
Registered(o, n, from, to) ==
    /\ n \in DOMAIN ctxs[o].guardOf
    /\ <<from, to>> \in DOMAIN ctxs[o].guardOf[n]
    /\ ctxs[o].guardOf[n][<<from, to>>] # 0

FourGuards(o, n, from, to) ==
    /\ from # WILD /\ to # WILD
    /\ Registered(o, n, from, to) /\ Registered(o, n, from, WILD)
    /\ Registered(o, n, WILD, to) /\ Registered(o, n, WILD, WILD)

\* The guard enter callbacks invoked for the request that Guard object g
\* stands for.
GuardEnters(g) == {j \in DOMAIN log : log[j].e = "genter" /\ log[j].g = g}

\* The Guard objects built for a request from -> to on child n of context o.
GuardsFor(o, n, from, to) ==
    {g \in DOMAIN guards :
        /\ guards[g].o = o /\ guards[g].cmd.target = n
        /\ guards[g].cmd.from = from /\ guards[g].cmd.to = to}

\* Log position i tells of a transition from -> to of child n of context o
\* that was executed from the state it was requested in.
ExecutedAt(i, o, n, from, to) ==
    /\ log[i].e = "commit" /\ log[i].o = o /\ log[i].n = n /\ log[i].s = to
    /\ log[i].key[1] = from /\ log[i].key[4] = from

\* C5: with guards registered for (a,b), (a,*), (*,b) and (*,*) on the same
\* target, a request a -> b invokes only the enter callback of the (a,b)
\* guard: every guard callback invoked for such a request is the (a,b)
\* guard's, it is invoked once, and no such transition is committed without
\* it.
C5_ExactGuardOnly ==
    \A o \in DOMAIN ctxs : \A n \in DOMAIN ctxs[o].guardOf :
    Registered(o, n, WILD, WILD) =>
    \A from \in StatesOf(n), to \in StatesOf(n) :
        FourGuards(o, n, from, to) =>
            /\ \A g \in GuardsFor(o, n, from, to) :
                  /\ Cardinality(GuardEnters(g)) <= 1
                  /\ \A j \in GuardEnters(g) : log[j].key = <<from, to>>
            /\ \A i \in DOMAIN log :
                  ExecutedAt(i, o, n, from, to) =>
                      \E g \in GuardsFor(o, n, from, to) :
                          \E j \in GuardEnters(g) : j < i

\* With the four guards registered, a transition a -> b has been committed
\* after its guard let it through.
C5_Witness ==
    \E i \in DOMAIN log :
        /\ ExecutedAt(i, 1, "L", "a", "b") /\ FourGuards(1, "L", "a", "b")
        /\ \E j \in 1..(i - 1) : log[j].e = "genter" /\ log[j].key = <<"a", "b">>

\* The first registered key among (from,to), (from,*), (*,to), (*,*), or
\* <<>> if none of them is registered.
ExpectedGuard(o, n, from, to) ==
    IF Registered(o, n, from, to) THEN <<from, to>>
    ELSE IF Registered(o, n, from, WILD) THEN <<from, WILD>>
    ELSE IF Registered(o, n, WILD, to) THEN <<WILD, to>>
    ELSE IF Registered(o, n, WILD, WILD) THEN <<WILD, WILD>>
    ELSE <<>>

\* C6: for every set of registered guard keys and every requested transition
\* from -> to, the transition takes the guard path iff one of the keys
\* (from,to), (from,*), (*,to), (*,*) is registered, and the guard invoked is
\* the first registered one in that order: a transition executed from the
\* state it was requested in is committed only after the enter callback of
\* that guard was invoked for it, and every guard invoked is that one.
C6_GuardPrecedence ==
    \A o \in DOMAIN ctxs : \A n \in DOMAIN ctxs[o].guardOf :
    \A from \in StatesOf(n), to \in StatesOf(n) :
        /\ \A g \in GuardsFor(o, n, from, to) :
              \A j \in GuardEnters(g) : log[j].key = ExpectedGuard(o, n, from, to)
        /\ \A i \in DOMAIN log :
              (ExecutedAt(i, o, n, from, to) /\ ExpectedGuard(o, n, from, to) # <<>>) =>
                  \E g \in GuardsFor(o, n, from, to) :
                      \E j \in GuardEnters(g) : j < i

\* ------------------------------------------------------------ C7, C8
\* tell(n, s) has ended, by returning or by throwing; s is a declared state
\* of n with no handler registered.
TellNoHandler ==
    /\ ev.t \in {"return", "throw"} /\ ev.call.op = "tell" /\ ev.call.pre.known
    /\ ev.call.s \in StatesOf(ev.call.n) /\ ~ev.call.pre.hasH

\* The call was made with the target's queue empty, on a context not marked
\* as updating, with no guard matching the transition.
ExecutedAtOnce ==
    ev.call.pre.qlen = 0 /\ ev.call.pre.ms # "UPDATE" /\ ~ev.call.pre.guarded

\* The enter path for s did not run during the call: no context was created
\* for s and no enter callback was invoked.
NoEnterPath ==
    \A i \in Events("commit", ev.call.o, ev.call.n, ev.call.pre.loglen)
           \cup Events("enter", ev.call.o, ev.call.n, ev.call.pre.loglen) :
        log[i].s # ev.call.s

\* C7 as stated: with requireHandler=true, tell(child, s) for a declared
\* state s with no registered handler raises MissingHandlerError and the
\* enter path for s is not run.
C7_AsStated ==
    (TellNoHandler /\ config.requireHandler) =>
        ev.t = "throw" /\ ev.kind = "MissingHandler" /\ NoEnterPath

\* C7 amended: with requireHandler=true, tell(child, s) for a declared state
\* s with no registered handler, called with the child's queue empty, on a
\* context that is not inside an update callback and with no guard matching
\* the transition, raises MissingHandlerError, and the enter path for s is
\* not run.
C7_MissingHandler ==
    (TellNoHandler /\ config.requireHandler /\ ExecutedAtOnce) =>
        ev.t = "throw" /\ ev.kind = "MissingHandler" /\ NoEnterPath

\* Such a tell has thrown, for a child that was in a state already.
C7_Witness ==
    /\ TellNoHandler /\ config.requireHandler /\ ExecutedAtOnce
    /\ ev.t = "throw" /\ ev.kind = "MissingHandler" /\ ev.call.pre.st # NULL

\* C8: with requireHandler=false, tell(child, s) for a declared state s with
\* no registered handler (executed at once, with no guard in its way) raises
\* no error: it returns with the child in state s, a live context for it, no
\* callback invoked for s and the child's queue empty.
C8_SilentEntry ==
    (TellNoHandler /\ ~config.requireHandler /\ ExecutedAtOnce) =>
        /\ ev.t = "return"
        /\ ctxs[ev.call.o].stateOf[ev.call.n] = ev.call.s
        /\ ctxs[ev.call.o].contextOf[ev.call.n] # 0
        /\ ctxs[ev.call.o].queueOf[ev.call.n] = <<>>
        /\ Events("enter", ev.call.o, ev.call.n, ev.call.pre.loglen) = {}

\* ----------------------------------------------------------------- C9
\* C9: whenever a transition request on a target (tell, ask or set) fails
\* with one of the engine's errors, the target's current state and its live
\* context in the owning context are what they were before the request.
\* (The requests looked at are those whose call committed no transition
\* before it failed, so that the failing transition is the requested one.)
C9_NoPartialFailure ==
    (/\ ev.t = "throw" /\ ev.call.op \in {"tell", "ask", "set"} /\ ev.call.pre.known
     /\ ev.kind \in {"MissingHandler", "StateInconsistency", "UnknownState",
                     "UnknownChild"}
     /\ Events("commit", ev.call.o, ev.call.n, ev.call.pre.loglen) = {}) =>
        /\ ctxs[ev.call.o].stateOf[ev.call.n] = ev.call.pre.st
        /\ ctxs[ev.call.o].contextOf[ev.call.n] = ev.call.pre.cx

\* ---------------------------------------------------------------- C10
\* The guard handler's enter callback stores the Guard object it is handed
\* and returns nothing.
StoresAndWaits(hid) ==
    /\ hid # 0
    /\ Script(gh[hid].enter).ops = <<Op("gstore", UNDEF, NULL)>>
    /\ Script(gh[hid].enter).ret = RetVoid

\* A tell, ask or set has returned whose transition matched such a guard.
GuardedRequest ==
    /\ ev.t = "return" /\ ev.call.op \in {"tell", "ask", "set"}
    /\ ev.call.pre.known /\ ev.call.pre.guarded
    /\ StoresAndWaits(guardHandler(ctxs[ev.call.o].guardOf[ev.call.n],
                                   ev.call.pre.st, ev.call.s))

RequestLeftPending ==
    /\ ctxs[ev.call.o].stateOf[ev.call.n] = ev.call.pre.st
    /\ ctxs[ev.call.o].contextOf[ev.call.n] = ev.call.pre.cx
    /\ ctxs[ev.call.o].queueOf[ev.call.n] = <<>>

\* proceed() of a stored Guard of such a handler has ended, and no transition
\* of the target was committed between the guard's enter callback and the
\* call of proceed().
LaterProceed ==
    /\ ev.t \in {"return", "throw"} /\ ev.call.op = "proceed"
    /\ ev.call.g \in stored /\ StoresAndWaits(guards[ev.call.g].h)
    /\ \A j \in GuardEnters(ev.call.g) :
          \A i \in Events("commit", ev.call.o, ev.call.n, j) : i > ev.call.pre.loglen

\* The first transition committed on the target during the call is the one
\* to the requested state.
ProceedCommitted ==
    LET commits == Events("commit", ev.call.o, ev.call.n, ev.call.pre.loglen)
    IN /\ commits # {}
       /\ log[Min(commits)].s = guards[ev.call.g].cmd.to
       /\ ctxs[log[Min(commits)].c].state = guards[ev.call.g].cmd.to

\* C10 as stated: if the matching guard's enter callback stores the Guard
\* and returns nothing, the requesting tell/ask/set returns with the target's
\* state and context unchanged and its queue empty, and a later proceed() of
\* the stored guard, with no other transition of the target in between,
\* commits the transition to the requested state.
C10_AsStated ==
    /\ GuardedRequest => RequestLeftPending
    /\ LaterProceed => ProceedCommitted

\* C10 amended: the request is one that is executed at once (made with the
\* target's queue empty, on a context not inside an update callback), and the
\* requested state has a handler registered when proceed() is called.
C10_PendingGuard ==
    /\ (GuardedRequest /\ ev.call.pre.qlen = 0 /\ ev.call.pre.ms # "UPDATE")
          => RequestLeftPending
    /\ (LaterProceed /\ ev.call.pre.hasH) => ProceedCommitted

\* proceed() of a guard that a top-level tell had left pending has returned,
\* with the target in the requested state.
C10_Witness ==
    /\ LaterProceed /\ ev.call.pre.hasH /\ ev.t = "return"
    /\ guards[ev.call.g].cmd.source = ROOT_NAME
    /\ ctxs[ev.call.o].stateOf[ev.call.n] = guards[ev.call.g].cmd.to
    /\ ev.call.pre.st = guards[ev.call.g].cmd.from

\* ---------------------------------------------------------------- C11
\* cancel() was called on Guard object g before log position k.
CancelledBefore(g, k) ==
    \E j \in 1..k : log[j].e = "cancel" /\ log[j].g = g

\* C11: calling cancel() on a pending guard abandons the decided transition:
\* when cancel() returns, with no transition of the target committed since
\* the guard was consulted, the target is in the state the request was made
\* in and no enter or exit callback has run for it; and a later proceed() on
\* the same Guard object does not commit the transition.
C11_CancelAbandons ==
    /\ (ev.t = "return" /\ ev.call.op = "cancel") =>
          /\ ctxs[ev.call.o].stateOf[ev.call.n] = ev.call.pre.st
          /\ ctxs[ev.call.o].contextOf[ev.call.n] = ev.call.pre.cx
          /\ Len(log) = ev.call.pre.loglen + 1
    /\ (/\ ev.t \in {"return", "throw"} /\ ev.call.op = "proceed"
        /\ CancelledBefore(ev.call.g, ev.call.pre.loglen)) =>
          Events("commit", ev.call.o, ev.call.n, ev.call.pre.loglen) = {}

\* ---------------------------------------------------------------- C12
\* Context d is the live context of a child of context p.
IsLiveChild(p, d) ==
    /\ d # 0 /\ ctxs[d].parent = p
    /\ ctxs[d].node \in DOMAIN ctxs[p].contextOf
    /\ ctxs[p].contextOf[ctxs[d].node] = d

\* Context d is below context k in the tree of contexts.
RECURSIVE Below(_, _)
Below(k, d) ==
    /\ d # 0 /\ ctxs[d].parent # 0
    /\ (ctxs[d].parent = k \/ Below(k, ctxs[d].parent))

\* Context d is a live descendant of context k.
RECURSIVE LiveBelow(_, _)
LiveBelow(k, d) ==
    /\ d # 0 /\ ctxs[d].parent # 0 /\ IsLiveChild(ctxs[d].parent, d)
    /\ (ctxs[d].parent = k \/ LiveBelow(k, ctxs[d].parent))

\* An update callback is in place for the state context d was created for.
HasUpdate(d) ==
    LET h == ctxs[ctxs[d].parent].handlerOf[ctxs[d].node][ctxs[d].state]
    IN h.reg /\ h.update # "none"

\* update(delta) has returned to top-level code.
UpdateReturned == ev.t = "return" /\ ev.call.op = "update"

\* The update callbacks invoked during the call, as log positions.
Ticked == {j \in (ev.call.pre.loglen + 1)..Len(log) : log[j].e = "update"}

\* The contexts created during the call.
CreatedInCall ==
    {log[j].c : j \in {i \in (ev.call.pre.loglen + 1)..Len(log) : log[i].e = "commit"}}

\* C12: update(delta) walks the live context tree depth-first: the update
\* callbacks of all live descendants of a context are invoked before its own
\* (every live descendant that has one is invoked, once, and earlier in the
\* log), each with the delta update was called with, and the root context
\* invokes no callback for itself.
C12_UpdateOrder ==
    UpdateReturned =>
        /\ \A i \in Ticked, j \in Ticked :
              /\ Below(log[j].c, log[i].c) => i < j
              /\ log[i].c = log[j].c => i = j
        /\ \A j \in Ticked :
              /\ log[j].key = <<ev.call.delta>>
              /\ log[j].c # ev.call.o /\ ctxs[log[j].c].parent # 0
              /\ \A d \in DOMAIN ctxs :
                    (LiveBelow(log[j].c, d) /\ HasUpdate(d) /\ d \notin CreatedInCall)
                        => \E i \in Ticked : i < j /\ log[i].c = d
        /\ \A d \in DOMAIN ctxs :
              (LiveBelow(ev.call.o, d) /\ HasUpdate(d) /\ d \notin CreatedInCall)
                  => \E i \in Ticked : log[i].c = d

\* An update has returned in which the callback of a context two levels
\* below the root ran before the callback of its parent.
C12_Witness ==
    /\ UpdateReturned
    /\ \E i \in Ticked, j \in Ticked :
          /\ i < j /\ ctxs[log[i].c].parent = log[j].c
          /\ ctxs[log[j].c].parent = ev.call.o

\* ---------------------------------------------------------------- C13
\* Frame j of the stack is a tell, ask or set called by an update callback
\* that has not returned yet.
RequestInUpdate(j) ==
    /\ j + 1 \in DOMAIN stack
    /\ stack[j].k = "call" /\ stack[j].op \in {"tell", "ask", "set"}
    /\ stack[j + 1].k = "script" /\ stack[j + 1].op = "update"

\* Frame i of the stack is an exit, guard or enter callback of the
\* transition that the call in frame j requested.
CallbackOfRequest(i, j) ==
    /\ i + 1 < j
    /\ stack[i].k = "script" /\ stack[i].op \in {"enter", "exit", "genter", "gexit"}
    /\ stack[i + 1].k \in {"trans", "guard", "proceed"}
    /\ stack[i + 1].cmd.target = stack[j].n /\ stack[i + 1].cmd.to = stack[j].s

\* C13: a transition requested from inside an update callback, by tell, ask
\* or set, is deferred: none of its exit, guard or enter callbacks runs
\* before that update callback has returned.
C13_Deferred ==
    \A j \in DOMAIN stack :
        RequestInUpdate(j) => \A i \in 1..(j - 1) : ~CallbackOfRequest(i, j)

\* ---------------------------------------------------------------- C14
\* Log position j tells of a request made by an update callback for a
\* declared state that has a handler and no guard in its way.
ValidRequestInUpdate(j) ==
    /\ log[j].e = "req" /\ log[j].key[3] = "update"
    /\ log[j].s \in StatesOf(log[j].n)
    /\ ctxs[log[j].o].handlerOf[log[j].n][log[j].s].reg
    /\ ~isGuarded([ctxs |-> ctxs], log[j].o, log[j].n, log[j].key[1], log[j].s)

\* C14: every valid, unguarded transition requested from inside an update
\* callback has been committed by the time the top-level update(delta) call
\* returns, and its queue is empty again.
C14_DrainedAfterUpdate ==
    UpdateReturned =>
        \A j \in (ev.call.pre.loglen + 1)..Len(log) :
            ValidRequestInUpdate(j) =>
                /\ \E i \in (j + 1)..Len(log) :
                      /\ log[i].e = "commit" /\ log[i].o = log[j].o
                      /\ log[i].n = log[j].n /\ log[i].s = log[j].s
                /\ ctxs[log[j].o].queueOf[log[j].n] = <<>>

\* ---------------------------------------------------------------- C15
\* Child name c is an unrestricted child of node N, or a child restricted to
\* a set of states that contains s.
VisibleIn(N, s, c) == c \in ChildMap(N)[WILD] \/ c \in ChildMap(N)[s]

\* when or tell has ended, by returning or by throwing.
Addressed == ev.t \in {"return", "throw"} /\ ev.call.op \in {"tell", "when"}

\* The call was rejected before it did anything, its child being unknown.
RejectedAsUnknown ==
    /\ ev.t = "throw" /\ ev.kind \in {"UnknownChild", "TypeError"}
    /\ ~ev.call.pre.known

\* C15: in the context created for node N in state s, a child name c can be
\* addressed by when/tell iff c is an unrestricted child of N or a child
\* restricted to states containing s (otherwise the call is rejected as
\* addressing an unknown child), and no live context exists for a child
\* whose parent node is not in one of the child's listed states.
C15_RestrictedChildren ==
    /\ Addressed =>
          (VisibleIn(ctxs[ev.call.o].node, ctxs[ev.call.o].state, ev.call.n)
              <=> ~RejectedAsUnknown)
    /\ \A k \in DOMAIN ctxs :
          /\ \A c \in DOMAIN ctxs[k].stateOf : VisibleIn(ctxs[k].node, ctxs[k].state, c)
          /\ \A d \in DOMAIN ctxs :
                IsLiveChild(k, d) => VisibleIn(ctxs[k].node, ctxs[k].state, ctxs[d].node)

\* The restricted child T has been addressed where its parent is in the
\* state it is listed for, and has a live context there.
C15_Witness ==
    /\ Addressed /\ ev.call.n = "T" /\ ev.t = "return" /\ ev.call.op = "tell"
    /\ ctxs[ev.call.o].state = "c"
    /\ ctxs[ev.call.o].contextOf["T"] # 0

\* The restricted child T has been addressed where its parent is in a state
\* it is not listed for, and the call was rejected.
C15_WitnessRejected ==
    /\ Addressed /\ ev.call.n = "T" /\ RejectedAsUnknown
    /\ ctxs[ev.call.o].node = "L" /\ ctxs[ev.call.o].state = "a"

\* ---------------------------------------------------------------- C16
\* The traffic light: L is LIGHT with a = red, c = green, b = yellow, and T
\* is CAR, restricted to green.  Enter handlers are registered for red
\* (calls set('green')) and green (calls set('yellow')) only, there are no
\* guards and the configuration is the default one.
TrafficProgram ==
    /\ ctxs[1].handlerOf["L"]["a"] = Handler("E_toC", "none", "none")
    /\ ctxs[1].handlerOf["L"]["c"] = Handler("E_toB", "none", "none")
    /\ ~ctxs[1].handlerOf["L"]["b"].reg
    /\ gh = <<>> /\ ~config.requireHandler

\* The program has called tell(LIGHT, 'red') and then only update.
RedThenTicks ==
    /\ TrafficProgram /\ stack = <<>> /\ tells = 1
    /\ log # <<>> /\ log[1].e = "req" /\ log[1].s = "a"

\* C16: in the traffic-light scenario, tell(LIGHT,'red') followed by any
\* number of update ticks commits exactly the LIGHT states red, green,
\* yellow in that order without error and ends with LIGHT = yellow, and a
\* CAR entry exists only in the LIGHT context created for green.
C16_TrafficLight ==
    RedThenTicks =>
        /\ err = "none"
        /\ Committed(1, "L", 0) = <<"a", "c", "b">>
        /\ ctxs[1].stateOf["L"] = "b"
        /\ \A k \in DOMAIN ctxs :
              "T" \in DOMAIN ctxs[k].stateOf <=> (ctxs[k].node = "L" /\ ctxs[k].state = "c")

\* ---------------------------------------------------------------- C17
\* The Node objects of the input, by their places.
Places ==
    {<<i, j>> \in (DOMAIN newNode.input) \X (1..2) : j <= Len(newNode.input[i].children)}

NameAt(p) == newNode.input[p[1]].children[p[2]]

\* The child at place p is visible under parent state s: it is unrestricted
\* or restricted to a list of states that holds s.
VisibleUnder(p, s) ==
    \/ newNode.input[p[1]].type = "Node"
    \/ \E k \in DOMAIN newNode.input[p[1]].states : newNode.input[p[1]].states[k] = s

\* Two children of the same name are visible under a common parent state.
VisibleDuplicate ==
    \E p \in Places, q \in Places, s \in ParentStates :
        p # q /\ NameAt(p) = NameAt(q) /\ VisibleUnder(p, s) /\ VisibleUnder(q, s)

\* The constructor has ended, by returning or by throwing.
Constructed == newNode.todo = <<>> \/ newNode.err # "none"

\* C17: constructing a node fails with the duplicate-child error whenever
\* two of its children with the same name are visible under a common parent
\* state, including the case of an unrestricted and a restricted one, so that
\* after a successful construction no parent state has two distinct visible
\* children of the same name.
C17_DuplicateChild ==
    (Constructed /\ VisibleDuplicate) => newNode.err = "Duplicate"


\* ----------------------------------------------------------------- C18
\* Log position i tells of a transition that was executed with a command
\* whose recorded fromState is not the state the target was in.
StaleCommit(i) ==
    log[i].e = "commit" /\ log[i].key[4] # log[i].key[1]

\* C18: a transition command whose recorded fromState no longer equals the
\* live current state of its target when it reaches execution fails with
\* StateInconsistencyError and runs no exit or enter callback, whether the
\* drain loop or a guard's proceed() executes it: no transition is ever
\* committed from a command whose fromState differs from the state left.
C18_StaleCommandFails ==
    \A i \in DOMAIN log : ~StaleCommit(i)

\* The half of C18 that the drain loop keeps: a stale transition is only ever
\* committed for a request that a guard had intercepted earlier, that is, by
\* that guard's proceed().
C18_DrainLoopChecks ==
    \A i \in DOMAIN log :
        StaleCommit(i) =>
            \E j \in 1..(i - 1) :
                /\ log[j].e = "genter" /\ log[j].o = log[i].o
                /\ log[j].n = log[i].n /\ log[j].s = log[i].s


\* ----------------------------------------------------------------- C19
\* The call e is a tell whose name is not a child of the context it was made
\* on, or whose state is not declared by that child.
TellOfUnknownChild(e) == e.call.op = "tell" /\ ~e.call.pre.known
TellOfUnknownState(e) ==
    e.call.op = "tell" /\ e.call.pre.known /\ e.call.s \notin StatesOf(e.call.n)

\* C19: tell(name, state) fails with UnknownChildError when name is not a
\* child of the context and with UnknownStateError when state is not declared
\* for that child (and then no callback has run: the log is as long as
\* before the call).
C19_TellRejects ==
    /\ ev.t # "none" /\ TellOfUnknownChild(ev) =>
          ev.t = "throw" /\ ev.kind = "UnknownChild"
    /\ ev.t # "none" /\ TellOfUnknownState(ev) =>
          ev.t = "throw" /\ ev.kind = "UnknownState" /\ Len(log) = ev.call.pre.loglen

\* What the code keeps of C19: such a tell throws (an error of whatever kind)
\* in the step that makes the call, and that step runs no callback and leaves
\* every current state, live context, queue and registry as it was.
C19_RejectedTellChangesNothing ==
    [][TellOfUnknownChild(ev') \/ TellOfUnknownState(ev') =>
          /\ ev'.t = "throw"
          /\ ctxs' = ctxs /\ gh' = gh /\ guards' = guards /\ log' = log]_vars

\* The half of C19 about undeclared states, which the code keeps.
C19_UnknownStateRejected ==
    ev.t # "none" /\ TellOfUnknownState(ev) =>
        ev.t = "throw" /\ ev.kind = "UnknownState" /\ Len(log) = ev.call.pre.loglen


\* ----------------------------------------------------------------- C20
\* The engine call that has just ended is a when(name, state, handler).
WhenEnded == ev.t # "none" /\ ev.call.op = "when"

\* C20: when(childName, state, handler) fails with UnknownChildError if
\* childName is not a child of the context and with UnknownStateError if
\* state is not declared for that child; otherwise it returns and the handler
\* registered for (childName, state) is the one it was given.
C20_WhenChecks ==
    WhenEnded =>
        IF ~ev.call.pre.known
        THEN ev.t = "throw" /\ ev.kind = "UnknownChild"
        ELSE IF ev.call.s \notin StatesOf(ev.call.n)
        THEN ev.t = "throw" /\ ev.kind = "UnknownState"
        ELSE /\ ev.t = "return"
             /\ ctxs[ev.call.o].handlerOf[ev.call.n][ev.call.s] = ev.call.h

\* What the code keeps of C20: a failing when leaves every registry, state,
\* context and queue as it was, and a successful one changes nothing but the
\* handler slot of (childName, state), which gets the handler it was given,
\* whatever was there before; no callback runs.
C20_WhenChangesOnlyItsSlot ==
    [][ev'.t # "none" /\ ev'.call.op = "when" =>
          /\ gh' = gh /\ guards' = guards /\ log' = log
          /\ IF ev'.t = "throw" THEN ctxs' = ctxs
             ELSE ctxs' = [ctxs EXCEPT
                     ![ev'.call.o].handlerOf[ev'.call.n][ev'.call.s] = ev'.call.h]]_vars

\* C20 with the wildcard counted as a state every child declares.
C20_WhenChecksButWildcard ==
    WhenEnded /\ ev.call.s # WILD => C20_WhenChecks

\* The cases of C20 happen: a when for an unknown child and one for an
\* undeclared state were rejected, and one replaced the handler of the
\* current state of a live child.
C20_SeenUnknownChild == ~(WhenEnded /\ ev.t = "throw" /\ ~ev.call.pre.known)
C20_SeenUnknownState == ~(WhenEnded /\ ev.t = "throw" /\ ev.call.s = BAD)
C20_SeenReplace ==
    ~(/\ WhenEnded /\ ev.t = "return" /\ ev.call.pre.hasH
      /\ ev.call.pre.st = ev.call.s /\ ev.call.pre.cx # 0)


\* ----------------------------------------------------------------- C21
\* The call e registered a guard for a child the context has, with neither
\* side the wildcard and at least one side a label the child does not declare.
GuardOfUndeclared(e) ==
    /\ e.t # "none" /\ e.call.op = "whenGuard" /\ e.call.pre.known
    /\ e.call.cmd.from # WILD /\ e.call.cmd.to # WILD
    /\ \/ e.call.cmd.from \notin StatesOf(e.call.n)
       \/ e.call.cmd.to \notin StatesOf(e.call.n)

\* C21: registering a guard for (from, to) fails with InvalidTransitionError
\* when neither side is the wildcard and at least one side is not a declared
\* state of the child, and the step that makes the call leaves the guard
\* registry (and every context) as it was.
C21_InvalidGuardRejected ==
    [][GuardOfUndeclared(ev') =>
          /\ ev'.t = "throw" /\ ev'.kind = "InvalidTransition"
          /\ ctxs' = ctxs /\ gh' = gh]_vars

\* Such a registration was rejected on a context whose guard registry
\* already held a guard.
C21_Witness ==
    /\ GuardOfUndeclared(ev) /\ ev.t = "throw"
    /\ \E k \in DOMAIN ctxs[1].guardOf["L"] : ctxs[1].guardOf["L"][k] # 0


\* ----------------------------------------------------------------- C22
\* The enter callback of a state has returned to execTransition, which is
\* about to look at the value returned.
EnterHasReturned == TopIs("trans") /\ Head(stack).ph = "entered"

\* The handler slot of the state being entered.
EnteredSlot(cs) ==
    cs[Head(stack).o].handlerOf[Head(stack).cmd.target][Head(stack).cmd.to]

\* C22: the return value of a state's enter callback decides the follow-up
\* hooks of that state: a partial handler object installs its update and exit
\* callbacks, a bare function is installed as the exit callback, and nothing
\* or a boolean installs nothing and raises no error, so that the update and
\* exit callbacks are those registered through when.
C22_EnterResult ==
    [][EnterHasReturned =>
          /\ ev'.t # "throw"
          /\ EnteredSlot(ctxs').enter = EnteredSlot(ctxs).enter
          /\ CASE ret.t = "partial" ->
                    /\ EnteredSlot(ctxs').update = ret.update
                    /\ EnteredSlot(ctxs').exit = ret.exit
               [] ret.t = "fn" ->
                    /\ EnteredSlot(ctxs').update = EnteredSlot(ctxs).update
                    /\ EnteredSlot(ctxs').exit = ret.exit
               [] OTHER -> EnteredSlot(ctxs') = EnteredSlot(ctxs)]_vars

\* C22 but for an enter callback that returns a boolean.
C22_EnterResultNotBoolean ==
    [][EnterHasReturned /\ ret.t \notin {"true", "false"} =>
          /\ ev'.t # "throw"
          /\ EnteredSlot(ctxs').enter = EnteredSlot(ctxs).enter
          /\ CASE ret.t = "partial" ->
                    /\ EnteredSlot(ctxs').update = ret.update
                    /\ EnteredSlot(ctxs').exit = ret.exit
               [] ret.t = "fn" ->
                    /\ EnteredSlot(ctxs').update = EnteredSlot(ctxs).update
                    /\ EnteredSlot(ctxs').exit = ret.exit
               [] OTHER -> EnteredSlot(ctxs') = EnteredSlot(ctxs)]_vars


\* ----------------------------------------------------------------- C23
\* User code is running: top-level code, or the body of a callback.
UserCodeRuns == stack = <<>> \/ TopIs("script")

\* The machine N with the name of the entry point (set or ask) taken out of
\* the records of the calls in progress; nothing in the engine reads it.
Unnamed(N) ==
    [N EXCEPT !.stack = [i \in DOMAIN N.stack |->
                            IF N.stack[i].k = "call"
                            THEN [N.stack[i] EXCEPT !.op = "request"]
                            ELSE N.stack[i]],
              !.ev = IF N.ev.call.k = "call"
                     THEN [N.ev EXCEPT !.call.op = "request"] ELSE N.ev,
              !.log = [i \in DOMAIN N.log |->
                          IF N.log[i].e = "req"
                          THEN [N.log[i] EXCEPT !.key[4] = "request"]
                          ELSE N.log[i]]]

\* The contexts that have a parent.
ChildContexts == {c \in DOMAIN ctxs : ctxs[c].parent # 0}

\* The labels a request is made with: the states of the node and one it does
\* not declare.
Requested(c) == StatesOf(ctxs[c].node) \cup {BAD}

\* C23: for every context with a parent and every state s, set(s) has the
\* same effect as ask(ownNodeName, s): called by user code in the same
\* machine state, the two calls leave the machine in the same state (the
\* same callbacks begun and logged, the same Guard objects with the same
\* 'from', the same queues, states, contexts and error), so that all that
\* follows is the same too.
C23_SetIsAskSelf ==
    UserCodeRuns =>
        \A c \in ChildContexts : \A s \in Requested(c) :
            Unnamed(set(Cur, c, s)) = Unnamed(ask(Cur, c, ctxs[c].node, s))

\* The comparison is made where it matters: a request of a target on itself
\* has made a guard run, and the request compared is made on the context of
\* an occupancy that has ended (its state is no longer the state of its
\* node) and is accepted.
C23_Witness ==
    /\ UserCodeRuns
    /\ \E g \in DOMAIN guards : guards[g].from = "__self__"
    /\ \E c \in ChildContexts : \E s \in Requested(c) :
          /\ ctxs[c].state # ctxs[ctxs[c].parent].stateOf[ctxs[c].node]
          /\ Len(set(Cur, c, s).log) > Len(log)


\* ----------------------------------------------------------------- C24
\* C24: in every reachable state, inside callbacks and during a guard's
\* proceed() too, the pending queue of every child in every context holds at
\* most 2 transition commands.
C24_QueueAtMostTwo ==
    \A c \in DOMAIN ctxs : \A n \in DOMAIN ctxs[c].queueOf :
        Len(ctxs[c].queueOf[n]) <= 2

\* A queue is full while a callback runs after a third request was made on
\* it (the second and the third request of the log since the queue was last
\* empty are both accepted), and a queue holds 2 commands during a proceed().
FullQueueInCallback ==
    /\ TopIs("script")
    /\ \E c \in DOMAIN ctxs : \E n \in DOMAIN ctxs[c].queueOf :
          /\ Len(ctxs[c].queueOf[n]) = 2
          /\ \E i \in DOMAIN log : \E j \in DOMAIN log :
                /\ i < j /\ log[i].e = "req" /\ log[j].e = "req"
                /\ log[i].o = c /\ log[j].o = c /\ log[i].n = n /\ log[j].n = n
                /\ log[i].key[3] = log[j].key[3] /\ log[i].key[3] # "top"
                /\ \A k \in (i + 1)..(j - 1) : log[k].e = "req"

C24_Witness ==
    /\ FullQueueInCallback
    /\ \E i \in DOMAIN stack : stack[i].k = "proceed"


\* ----------------------------------------------------------------- C25
\* The guard handler's enter callback returns true and does nothing else.
ReturnsTrue(hid) ==
    /\ hid # 0
    /\ Script(gh[hid].enter).ops = <<>> /\ Script(gh[hid].enter).ret = RetTrue

\* The guard handler consulted for the request of the call that has ended.
GuardOfCall == guardHandler(ctxs[ev.call.o].guardOf[ev.call.n], ev.call.pre.st, ev.call.s)

\* A tell, ask or set has returned whose transition matched such a guard.
TrueGuardRequest ==
    /\ ev.t = "return" /\ ev.call.op \in {"tell", "ask", "set"}
    /\ ev.call.pre.known /\ ev.call.pre.guarded /\ ReturnsTrue(GuardOfCall)

\* The log positions, since the call began, of event e of the target.
Since(e) == Events(e, ev.call.o, ev.call.n, ev.call.pre.loglen)

\* During the call the requested transition was committed, and its callbacks
\* ran once each in the order guard enter, guard exit hook (if any), exit of
\* the old state (if any), enter of the new state (if any).
CommittedInOrder ==
    /\ Since("genter") # {} /\ Since("commit") # {}
    /\ LET ge == Min(Since("genter"))
           cm == Min(Since("commit"))
           g == log[ge].g
           hooks == {i \in DOMAIN log : log[i].e = "gexit" /\ log[i].g = g}
           exits == {i \in Since("exit") : i < cm}
           enters == {i \in DOMAIN log : log[i].e = "enter" /\ log[i].c = log[cm].c}
       IN /\ guards[g].h = GuardOfCall
          /\ {i \in DOMAIN log : log[i].e = "genter" /\ log[i].g = g} = {ge}
          /\ log[cm].s = ev.call.s /\ log[cm].key[1] = ev.call.pre.st
          /\ ge < cm
          /\ IF gh[GuardOfCall].exit # "none"
             THEN \E i \in hooks : hooks = {i} /\ ge < i /\ i < cm
             ELSE hooks = {}
          /\ IF log[cm].key[3]
             THEN \E i \in exits :
                     /\ exits = {i} /\ log[i].s = ev.call.pre.st /\ ge < i
                     /\ \A k \in hooks : k < i
             ELSE exits = {}
          /\ IF ctxs[ev.call.o].handlerOf[ev.call.n][ev.call.s].enter # "none"
             THEN \E i \in enters : enters = {i} /\ cm < i
             ELSE enters = {}

\* C25 as stated: when a guard's enter callback returns true without calling
\* proceed() itself, the transition is committed before the requesting
\* tell/ask/set returns, and the callbacks run exactly once each in the
\* order: guard enter, guard exit hook (if any), old state's exit callback
\* (if any), new state's enter callback.
C25_AsStated == TrueGuardRequest => CommittedInOrder

\* C25 amended: the request is one that is executed at once (made with the
\* target's queue empty, on a context not inside an update callback).
C25_TrueGuardCommits ==
    (TrueGuardRequest /\ ev.call.pre.qlen = 0 /\ ev.call.pre.ms # "UPDATE")
        => CommittedInOrder

\* Such a request has returned after the guard's exit hook, the old state's
\* exit callback and the new state's enter callback have all run.
C25_Witness ==
    /\ TrueGuardRequest /\ ev.call.pre.qlen = 0 /\ ev.call.pre.ms # "UPDATE"
    /\ gh[GuardOfCall].exit # "none"
    /\ Since("exit") # {} /\ ev.call.pre.hasEnter


\* ----------------------------------------------------------------- C26
\* Stack position j is a proceed() that found the queue of its target empty
\* and is executing its transition.
ProceedExecutes(j) == stack[j].k = "proceed" /\ stack[j].ph = "pushed"

\* While it does, its command is at the front of the queue, and nothing else
\* of the target is executed inside it (no drain loop, transition or guard of
\* the same target is in progress above the transition it runs).
MarkerInFront(j) ==
    LET q == ctxs[stack[j].o].queueOf[stack[j].n] IN
    /\ q # <<>> /\ q[1] = stack[j].cmd
    /\ \A i \in 1..(j - 2) :
          stack[i].k \in {"run", "trans", "guard", "proceed"} =>
              ~(stack[i].o = stack[j].o /\ stack[i].n = stack[j].n)

\* proceed() of a stored guard, called with the queue of the target empty,
\* has returned.
ProceedOnEmptyReturned ==
    /\ ev.t = "return" /\ ev.call.op = "proceed" /\ ev.call.g \in stored
    /\ ev.call.pre.qlen = 0

\* The requests on the target made by the enter callback of the transition
\* that the proceed() committed: those logged right after that callback was
\* called.
RequestsOfEnter ==
    LET cms == Since("commit") IN
    IF cms = {} THEN {}
    ELSE {i \in Since("req") :
            /\ log[i].key[3] = "enter" /\ i > Min(cms) + 1
            /\ log[Min(cms) + 1].e = "enter" /\ log[Min(cms) + 1].c = log[Min(cms)].c
            /\ \A k \in (Min(cms) + 2)..(i - 1) : log[k].e = "req"}

\* Request i was executed later on: a guard was consulted for it or it was
\* committed.
ExecutedLater(i) ==
    \E k \in (i + 1)..Len(log) :
        /\ log[k].e \in {"commit", "genter"} /\ log[k].o = log[i].o
        /\ log[k].n = log[i].n /\ log[k].s = log[i].s
        /\ \A m \in Since("req") : m < k

\* C26 as stated: when a stored guard's proceed() is called while the
\* target's queue is empty, the guarded transition is executed with itself at
\* the front of the queue, so any request on the same target issued by its
\* enter callback is queued (not nested), is executed after that enter
\* callback returns and before proceed() returns, and the queue is empty when
\* proceed() returns.
C26_AsStated ==
    /\ \A j \in DOMAIN stack : ProceedExecutes(j) => MarkerInFront(j)
    /\ ProceedOnEmptyReturned =>
          /\ ctxs[ev.call.o].queueOf[ev.call.n] = <<>>
          /\ \A i \in RequestsOfEnter : ExecutedLater(i)

\* C26 amended: of the requests issued by the enter callback, it is the last
\* one that is executed.
C26_ProceedOnEmptyQueue ==
    /\ \A j \in DOMAIN stack : ProceedExecutes(j) => MarkerInFront(j)
    /\ ProceedOnEmptyReturned =>
          /\ ctxs[ev.call.o].queueOf[ev.call.n] = <<>>
          /\ RequestsOfEnter # {} => ExecutedLater(Max(RequestsOfEnter))

\* Such a proceed() has returned after the enter callback of its transition
\* made a request on the target.
C26_Witness == ProceedOnEmptyReturned /\ RequestsOfEnter # {}


\* ----------------------------------------------------------------- C27
\* Stack position j is a transition whose exit or enter callback is
\* executing (the callback's frame lies right above it).
InStateCallback(j) ==
    /\ j > 1 /\ stack[j].k = "trans"
    /\ stack[j - 1].k = "script" /\ stack[j - 1].op \in {"enter", "exit"}

\* C27: state changes of a single target are serialized: whatever handlers
\* call synchronously (tell, ask, set, a stored guard's proceed()), no exit or
\* enter callback of one transition of a target starts while an exit or enter
\* callback of another transition of the same target, in the same owning
\* context, is still executing.
C27_Serialized ==
    \A i \in DOMAIN stack : \A j \in DOMAIN stack :
        (i < j /\ InStateCallback(i) /\ InStateCallback(j)) =>
            ~(stack[i].o = stack[j].o /\ stack[i].n = stack[j].n)

\* What the code keeps of C27: the nested transition is always one run by a
\* proceed() that found the queue of its target occupied.
C27_SerializedButProceed ==
    \A i \in DOMAIN stack : \A j \in DOMAIN stack :
        (/\ i < j /\ InStateCallback(i) /\ InStateCallback(j)
         /\ stack[i].o = stack[j].o /\ stack[i].n = stack[j].n) =>
            /\ stack[i + 1].k = "proceed" /\ stack[i + 1].ph = "inline"
            /\ stack[i + 1].g \in stored


\* ----------------------------------------------------------------- C28
\* Child n of context c has a live context iff its current state is set, and
\* that context was created for that state.
ContextMatchesState(c, n) ==
    /\ ctxs[c].contextOf[n] # 0 <=> ctxs[c].stateOf[n] # NULL
    /\ ctxs[c].contextOf[n] # 0 =>
          /\ ctxs[ctxs[c].contextOf[n]].state = ctxs[c].stateOf[n]
          /\ ctxs[ctxs[c].contextOf[n]].node = n
          /\ ctxs[ctxs[c].contextOf[n]].parent = c

\* C28: whenever no engine call or callback is in progress (after any
\* sequence of tell/ask/set/when/update/proceed calls, those that ended in an
\* error included), for every context and every child name a live child
\* context is present iff the child's current state is set, and that context
\* was created for exactly the child's current state.
C28_ContextIffState ==
    stack = <<>> =>
        \A c \in DOMAIN ctxs : \A n \in DOMAIN ctxs[c].stateOf :
            ContextMatchesState(c, n)

\* What the code keeps of C28: the same as long as no call has ended in an
\* error.
C28_ContextIffStateNoError ==
    (stack = <<>> /\ err = "none") =>
        \A c \in DOMAIN ctxs : \A n \in DOMAIN ctxs[c].stateOf :
            ContextMatchesState(c, n)

\* ---------------------------------------------------------------- C29
\* The request a guard's enter callback answers: the latest request before it
\* for the same child of the same context with the command's source, from and
\* to.
RequestOfGuard(j) ==
    LET g == guards[log[j].g]
        R == {i \in 1..(j - 1) :
                /\ log[i].e = "req" /\ log[i].o = log[j].o /\ log[i].n = log[j].n
                /\ log[i].s = g.cmd.to /\ log[i].key[1] = g.cmd.from
                /\ log[i].key[2] = g.cmd.source}
    IN IF R = {} THEN 0 ELSE CHOOSE i \in R : \A k \in R : k <= i

\* Who a request names as its requester, by the entry point it came through.
RequesterName(r) ==
    CASE r.key[4] = "set" -> "__self__"
      [] r.key[4] = "ask" /\ r.key[2] = r.n -> "__self__"
      [] r.key[4] = "tell" /\ r.key[2] = ctxs[r.o].node -> "__parent__"
      [] r.key[4] = "ask" /\ r.key[2] \in DOMAIN ctxs[r.o].stateOf -> r.key[2]
      [] OTHER -> "?"

GuardEnterCalls == {j \in DOMAIN log : log[j].e = "genter"}

\* C29: the 'from' of the Guard object handed to a guard's enter callback is
\* '__self__' when the target asked for the transition itself (set, or ask
\* with its own name), '__parent__' when the owning context asked with tell,
\* and the name of the sibling's node when a sibling asked with ask.
C29_GuardFrom ==
    \A j \in GuardEnterCalls :
        /\ RequestOfGuard(j) # 0
        /\ guards[log[j].g].from = RequesterName(log[RequestOfGuard(j)])

\* A guard has answered a tell of the owning context, an ask of a sibling and
\* an ask of the target itself.
C29_Witness ==
    /\ C29_GuardFrom
    /\ \E j \in GuardEnterCalls : LET r == log[RequestOfGuard(j)] IN
            r.key[4] = "tell" /\ guards[log[j].g].from = "__parent__"
    /\ \E j \in GuardEnterCalls : LET r == log[RequestOfGuard(j)] IN
            r.key[4] = "ask" /\ r.key[2] # r.n /\ guards[log[j].g].from = r.key[2]
    /\ \E j \in GuardEnterCalls : LET r == log[RequestOfGuard(j)] IN
            r.key[4] = "ask" /\ r.key[2] = r.n /\ guards[log[j].g].from = "__self__"

\* A guard has answered a set.
C29_WitnessSet ==
    \E j \in GuardEnterCalls : RequestOfGuard(j) # 0 /\
        LET r == log[RequestOfGuard(j)] IN
            r.key[4] = "set" /\ guards[log[j].g].from = "__self__"

\* ---------------------------------------------------------------- C30
\* A context as the constructor leaves it: every child unset, with no
\* handler, no guard, no queued command and no context.
AsConstructed(cx) ==
    \A k \in DOMAIN cx.stateOf :
        /\ cx.stateOf[k] = NULL /\ cx.queueOf[k] = <<>> /\ cx.contextOf[k] = 0
        /\ \A s \in DOMAIN cx.handlerOf[k] : ~cx.handlerOf[k][s].reg
        /\ \A key \in DOMAIN cx.guardOf[k] : cx.guardOf[k][key] = 0

\* A context user code has registered a handler and a guard in, with a child
\* that has entered a state.
Furnished(cx) ==
    /\ \E k \in DOMAIN cx.stateOf : cx.stateOf[k] # NULL
    /\ \E k \in DOMAIN cx.stateOf : \E s \in DOMAIN cx.handlerOf[k] :
            cx.handlerOf[k][s].reg
    /\ \E k \in DOMAIN cx.stateOf : \E key \in DOMAIN cx.guardOf[k] :
            cx.guardOf[k][key] # 0

\* C30: every committed transition creates a context for the target that no
\* earlier transition has created, with the children of the target in the new
\* state, all unset with empty queues, and with no state handler and no guard
\* in it, whatever was registered in the contexts of earlier occupancies.
C30_FreshContext ==
    [][\A i \in (Len(log) + 1)..Len(log') :
           log'[i].e = "commit" =>
               /\ log'[i].c > Len(ctxs) /\ log'[i].c <= Len(ctxs')
               /\ ctxs'[log'[i].o].contextOf[log'[i].n] = log'[i].c
               /\ LET cx == ctxs'[log'[i].c] IN
                      /\ cx.node = log'[i].n /\ cx.parent = log'[i].o
                      /\ cx.state = log'[i].s
                      /\ DOMAIN cx.stateOf = getChildren(log'[i].n, log'[i].s)
                      /\ AsConstructed(cx)]_vars

\* The target has just entered the state it was in, whose last context had a
\* handler and a guard registered and a child in a state, and the new context
\* has children and is fresh.
C30_Witness ==
    /\ log # <<>> /\ log[Len(log)].e = "enter"
    /\ stack # <<>> /\ Head(stack).k = "script" /\ Head(stack).pc = 1
    /\ LET e == log[Len(log)] IN
          /\ DOMAIN ctxs[e.c].stateOf # {} /\ AsConstructed(ctxs[e.c])
          /\ \E c \in 1..(e.c - 1) :
                /\ ctxs[c].node = e.n /\ ctxs[c].parent = e.o /\ ctxs[c].state = e.s
                /\ Furnished(ctxs[c])

\* ---------------------------------------------------------------- C31
\* The demo program is registered and its first call is tell(LIGHT, 'green').
DemoStarted ==
    /\ ctxs[1].handlerOf["L"]["c"].enter = "E_green"
    /\ log # <<>> /\ log[1].e = "req" /\ log[1].s = "c"

\* The transitions committed so far, in order, as <<node, state>>.
RECURSIVE CommitsFrom(_)
CommitsFrom(i) ==
    IF i > Len(log) THEN <<>>
    ELSE IF log[i].e = "commit" THEN <<<<log[i].n, log[i].s>>>> \o CommitsFrom(i + 1)
    ELSE CommitsFrom(i + 1)

DemoOrder ==
    <<<<"L", "c">>, <<"C", "x">>, <<"C", "y">>, <<"T", "x">>, <<"T", "y">>, <<"L", "b">>>>

IsPrefix(p, q) == Len(p) <= Len(q) /\ \A i \in DOMAIN p : p[i] = q[i]

\* The commits of L, by position in the log, and the calls of L's guard.
LightCommits == {i \in DOMAIN log : log[i].e = "commit" /\ log[i].n = "L"}
LightGuardCalls == {i \in DOMAIN log : log[i].e = "genter" /\ log[i].n = "L"}

\* The enter callback of green is running (engine calls it made included).
GreenRuns == \E k \in DOMAIN stack : stack[k].k = "script" /\ stack[k].sid = "E_green"

\* C31: after every step of the demo program the committed order is LIGHT=>green,
\* CAR=>forward, CAR=>brake, PERSON=>walk, PERSON=>idle and then LIGHT=>yellow:
\* the tells on children made by green's enter callback are committed before
\* they return, its set('yellow') only after it has returned; the ('*','*')
\* guard on LIGHT is called exactly once before each LIGHT transition, the
\* first one from the unset state included.
C31_DemoOrder ==
    [][(DemoStarted =>
        LET cs == CommitsFrom(1) IN
        /\ IsPrefix(cs, DemoOrder) \/ IsPrefix(DemoOrder, cs)
        /\ GreenRuns => IsPrefix(cs, SubSeq(DemoOrder, 1, 5))
        /\ (TopIs("script") /\ Head(stack).sid = "E_green" /\ Head(stack).pc >= 6)
               => Len(cs) = IF Head(stack).pc = 6 THEN 4 ELSE 5
        /\ \A i \in LightCommits :
              Cardinality({j \in LightGuardCalls : j < i})
                  = Cardinality({j \in LightCommits : j <= i}))']_vars

\* LIGHT=>yellow has been committed after the five transitions before it.
C31_Witness ==
    DemoStarted /\ IsPrefix(DemoOrder, CommitsFrom(1)) /\ err = "none"

\* ---------------------------------------------------------------- C32
\* C32: in every reachable state the current state of every child in every
\* context is unset or a state its node declares; it is never the wildcard.
C32_StateDeclared ==
    \A c \in DOMAIN ctxs : \A k \in DOMAIN ctxs[c].stateOf :
        ctxs[c].stateOf[k] = NULL \/ ctxs[c].stateOf[k] \in StatesOf(k)

\* The wildcard is the only label outside the declared states a child is
\* ever in.
C32_StateDeclaredOrWildcard ==
    \A c \in DOMAIN ctxs : \A k \in DOMAIN ctxs[c].stateOf :
        ctxs[c].stateOf[k] \in {NULL, WILD} \cup StatesOf(k)

\* ---------------------------------------------------------------- C33
\* The keys of child k's guard registry in context c that hold a guard.
GuardKeys(c, k) == {key \in DOMAIN ctxs[c].guardOf[k] : ctxs[c].guardOf[k][key] # 0}

\* C33: in every reachable state both sides of every key of a child's guard
\* registry are the wildcard or a state the child declares (so that a label
\* the child does not declare is refused on the 'to' side as it is on the
\* 'from' side).
C33_GuardKeysDeclared ==
    \A c \in DOMAIN ctxs : \A k \in DOMAIN ctxs[c].guardOf :
        \A key \in GuardKeys(c, k) :
            /\ key[1] \in StatesOf(k) \cup {WILD}
            /\ key[2] \in StatesOf(k) \cup {WILD}

\* What holds instead: the 'from' side of every key is the wildcard or
\* declared, and the 'to' side is too unless 'from' is the wildcard.
C33_GuardKeysButWildcardFrom ==
    \A c \in DOMAIN ctxs : \A k \in DOMAIN ctxs[c].guardOf :
        \A key \in GuardKeys(c, k) :
            /\ key[1] \in StatesOf(k) \cup {WILD}
            /\ key[1] # WILD => key[2] \in StatesOf(k) \cup {WILD}

\* ---------------------------------------------------------------- C34
\* A call has ended in an error raised while a transition of its target was
\* executed, and the error has reached top-level code.
TransitionFailed ==
    /\ stack = <<>> /\ ev.t = "throw"
    /\ ev.kind \in {"MissingHandler", "StateInconsistency"}
    /\ ev.call.o # 0 /\ ev.call.n \in DOMAIN ctxs[ev.call.o].queueOf

\* C34: an error raised while a transition is executed does not wedge the
\* target: once the error has reached the caller the target's pending queue
\* is empty (so that the next valid tell is executed at once).
C34_NoWedge ==
    TransitionFailed => ctxs[ev.call.o].queueOf[ev.call.n] = <<>>

\* A tell on a target whose queue an earlier error left filled has returned
\* without any callback called and without a commit.
C34_WedgedTell ==
    /\ stack = <<>> /\ ev.t = "return" /\ ev.call.op = "tell"
    /\ err # "none" /\ ev.call.pre.known /\ ev.call.pre.qlen > 0
    /\ Len(log) = ev.call.pre.loglen + 1

\* ---------------------------------------------------------------- C35
\* C35: an update callback registered for (node, state) is invoked only if
\* state is the node's current state in its owning context at the moment of
\* the call, also
\* when a descendant's update callback has moved the node earlier in the tick.
C35_UpdateOfCurrentState ==
    [][\A i \in (Len(log) + 1)..Len(log') :
           log'[i].e = "update" =>
               ctxs'[log'[i].o].stateOf[log'[i].n] = log'[i].s]_vars

\* The same, for ticks in which no update callback has asked for a
\* transition before the call.
C35_UpdateOfCurrentStateQuietTick ==
    [][\A i \in (Len(log) + 1)..Len(log') :
           (/\ log'[i].e = "update"
            /\ \A k \in DOMAIN stack' :
                   stack'[k].k = "call" /\ stack'[k].op = "update" =>
                       \A j \in (stack'[k].pre.loglen + 1)..(i - 1) : log'[j].e = "update")
           => ctxs'[log'[i].o].stateOf[log'[i].n] = log'[i].s]_vars

\* ---------------------------------------------------------------- C36
\* The engine is at work on a transition of child f.n of context f.o: in the
\* drain loop, in execTransition, in execGuard or in proceed().
EngineKinds == {"run", "trans", "guard", "proceed"}

\* All that context c holds for its child k.
Slot(cs, c, k) ==
    <<cs[c].stateOf[k], cs[c].contextOf[k], cs[c].queueOf[k], cs[c].handlerOf[k],
      cs[c].guardOf[k]>>

\* A callback is about to return or to make a call that is no request and
\* no decision of a guard.
QuietCallbackStep ==
    /\ TopIs("script")
    /\ LET f == Head(stack)
           ops == Script(f.sid).ops
       IN f.pc > Len(ops) \/ ops[f.pc].op \in {"when", "whenGuard", "gstore"}

\* C36: a step of the engine that executes a transition of target T in
\* context C changes T's current state, live context, queue and hooks in C
\* only: what C holds for every other child is unchanged, and so is every
\* other context there was, the ancestors of C among them; and a step of a
\* callback that asks for no transition changes the callback's own context
\* only.
C36_FrameEffect ==
    [][/\ (stack # <<>> /\ Head(stack).k \in EngineKinds) =>
             LET f == Head(stack) IN
             \A c \in DOMAIN ctxs :
                 IF c # f.o THEN ctxs'[c] = ctxs[c]
                 ELSE \A k \in DOMAIN ctxs[c].stateOf \ {f.n} :
                          Slot(ctxs', c, k) = Slot(ctxs, c, k)
       /\ QuietCallbackStep =>
             \A c \in DOMAIN ctxs \ {Head(stack).self} : ctxs'[c] = ctxs[c]]_vars

\* A transition has just been committed on a child of a context that is not
\* the root while a sibling is in a state, with a handler, a guard and a
\* command in its queue.
C36_Witness ==
    /\ log # <<>> /\ log[Len(log)].e = "enter"
    /\ LET e == log[Len(log)] IN
          /\ e.o # 1 /\ ctxs[e.o].stateOf[e.n] = e.s
          /\ \E k \in DOMAIN ctxs[e.o].stateOf \ {e.n} :
                /\ ctxs[e.o].stateOf[k] # NULL /\ ctxs[e.o].contextOf[k] # 0
                /\ ctxs[e.o].queueOf[k] # <<>>
                /\ \E s \in DOMAIN ctxs[e.o].handlerOf[k] : ctxs[e.o].handlerOf[k][s].reg
                /\ \E key \in DOMAIN ctxs[e.o].guardOf[k] : ctxs[e.o].guardOf[k][key] # 0

\* ---------------------------------------------------------------- C37
\* tell(T, s) has just returned; it was called while T was in state s, with
\* T's queue empty, outside an update callback, with no guard matching and a
\* handler with an enter callback registered for s.
SameStateTell ==
    /\ ev.t = "return" /\ ev.call.op = "tell" /\ ev.call.pre.known
    /\ ev.call.pre.st = ev.call.s /\ ev.call.pre.st # NULL
    /\ ev.call.pre.qlen = 0 /\ ev.call.pre.ms # "UPDATE"
    /\ ~ev.call.pre.guarded /\ ev.call.pre.hasEnter

\* Position i of the log is the commit of that tell: T enters s from s, and a
\* context that did not exist replaces the one T had; the exit callback of s,
\* if s has one, was called just before with the old context, and the enter
\* callback of s just after with the new one.
FullReentryAt(i) ==
    LET f == ev.call
        l == f.pre.loglen
    IN /\ i + 1 <= Len(log)
       /\ log[l + 1].e = "req" /\ log[l + 1].s = f.s
       /\ log[i].e = "commit" /\ log[i].o = f.o /\ log[i].n = f.n /\ log[i].s = f.s
       /\ log[i].key[1] = f.s /\ log[i].key[2] = f.pre.cx /\ log[i].c > f.pre.cx
       /\ ctxs[log[i].c].state = f.s /\ ctxs[log[i].c].parent = f.o
       /\ log[i + 1].e = "enter" /\ log[i + 1].o = f.o /\ log[i + 1].n = f.n
       /\ log[i + 1].s = f.s /\ log[i + 1].c = log[i].c
       /\ IF log[i].key[3]
          THEN /\ i = l + 3 /\ log[l + 2].e = "exit" /\ log[l + 2].o = f.o
               /\ log[l + 2].n = f.n /\ log[l + 2].s = f.s /\ log[l + 2].c = f.pre.cx
          ELSE i = l + 2

\* C37 as stated: whenever tell(T, s) is issued while T is in state s, it is
\* executed as a full transition: the exit callback of s runs, T's context is
\* replaced by a new one, and the enter callback of s runs again, in that
\* order.
C37_AsStated ==
    (/\ ev.t = "return" /\ ev.call.op = "tell" /\ ev.call.pre.known
     /\ ev.call.pre.st = ev.call.s /\ ev.call.pre.st # NULL /\ ev.call.pre.hasEnter)
    => \E i \in {ev.call.pre.loglen + 2, ev.call.pre.loglen + 3} : FullReentryAt(i)

\* A tell of the state the target is in has returned with nothing but the
\* guard's enter callback called: the guard has kept the decision.
C37_GuardKeepsReentry ==
    /\ ev.t = "return" /\ ev.call.op = "tell" /\ ev.call.pre.known
    /\ ev.call.pre.st = ev.call.s /\ ev.call.pre.st # NULL /\ ev.call.pre.hasEnter
    /\ ev.call.pre.qlen = 0 /\ ev.call.pre.guarded /\ err = "none"
    /\ Len(log) = ev.call.pre.loglen + 2 /\ log[Len(log)].e = "genter"

\* C37, amended: tell(T, s) issued while T is in state s, with T's queue
\* empty, outside an update callback and with no guard matching, has been
\* executed as a full transition at the step it returns: the exit callback
\* of s runs, T's context is replaced by a new one, and the enter callback of
\* s runs again, in that order.
C37_SameStateReentry ==
    [][(SameStateTell =>
        \E i \in {ev.call.pre.loglen + 2, ev.call.pre.loglen + 3} : FullReentryAt(i))']_vars

\* Such a tell has returned for a state with an exit callback, which ran.
C37_Witness ==
    /\ SameStateTell
    /\ FullReentryAt(ev.call.pre.loglen + 3)
    /\ log[ev.call.pre.loglen + 3].key[3]
    /\ ev.call.pre.cx # 0

\* ---------------------------------------------------------------- C38
\* The call of the enter callback that began the occupancy left at position i
\* of the log (0 if the state was entered without a callback).
EnterOfOccupancy(i) ==
    LET K == {k \in 1..(i - 1) : /\ log[k].e = "enter" /\ log[k].o = log[i].o
                                 /\ log[k].n = log[i].n /\ log[k].s = log[i].s
                                 /\ log[k].c = log[i].c}
    IN IF K = {} THEN 0 ELSE CHOOSE k \in K : \A j \in K : j <= k

\* The exit callbacks user code hands over by returning them from an enter
\* callback (the others are registered with when).
ReturnedHooks == {"X_fn", "X_part"}

\* C38: the exit callback run when a target leaves a state belongs to the
\* occupancy that ends: an exit callback that was not registered with when
\* runs only if the enter callback of that occupancy returned it.
C38_ExitOfThisOccupancy ==
    \A i \in DOMAIN log :
        (log[i].e = "exit" /\ log[i].key[1] \in ReturnedHooks) =>
            LET k == EnterOfOccupancy(i) IN
            /\ k # 0
            /\ ScriptRet(ctxs[log[i].o].handlerOf[log[i].n][log[i].s].enter,
                         SubSeq(log, 1, k), log[i].n, log[i].s).exit = log[i].key[1]

\* The same for the first occupancy of each state in each context.
C38_ExitOfFirstOccupancy ==
    \A i \in DOMAIN log :
        (/\ log[i].e = "exit" /\ log[i].key[1] \in ReturnedHooks
         /\ \A j \in 1..(i - 1) :
               log[j].e = "commit" /\ log[j].n = log[i].n /\ log[j].s = log[i].s
                   => log[j].c = log[i].c) =>
            LET k == EnterOfOccupancy(i) IN
            /\ k # 0
            /\ ScriptRet(ctxs[log[i].o].handlerOf[log[i].n][log[i].s].enter,
                         SubSeq(log, 1, k), log[i].n, log[i].s).exit = log[i].key[1]

\* ---------------------------------------------------------------- C39
\* The commits made by proceed() of Guard g, and the runs of its exit hook.
CommitsOfGuard(g) == {i \in DOMAIN log : log[i].e = "commit" /\ log[i].key[5] = g}

HooksOfGuard(g) == {i \in DOMAIN log : log[i].e = "gexit" /\ log[i].g = g}

\* C39: for one Guard object the decided transition is committed at most
\* once: however often proceed() is called, and also when the guard's enter
\* callback calls proceed() and then returns true, the guard exit hook runs
\* at most once and the transition (exit of the old state, enter of the new
\* one) is carried out at most once.
C39_CommittedOnce ==
    \A g \in DOMAIN guards :
        /\ Cardinality(CommitsOfGuard(g)) <= 1
        /\ Cardinality(HooksOfGuard(g)) <= 1

\* The same for the guards whose enter callback does not both call proceed()
\* and return true, and that were not kept by user code.
C39_CommittedOnceUnlessCalledTwice ==
    \A g \in DOMAIN guards :
        (gh[guards[g].h].enter # "G_both" /\ g \notin stored) =>
            /\ Cardinality(CommitsOfGuard(g)) <= 1
            /\ Cardinality(HooksOfGuard(g)) <= 1

\* The enter callback of a guard called proceed() and returned true, and the
\* transition has been committed twice with the exit and enter callbacks run
\* both times.
C39_TwiceByTrue ==
    \E g \in DOMAIN guards :
        /\ gh[guards[g].h].enter = "G_both"
        /\ Cardinality(CommitsOfGuard(g)) = 2
        /\ Cardinality({i \in DOMAIN log : log[i].e = "enter" /\
                           \E j \in CommitsOfGuard(g) : log[j].c = log[i].c}) = 2

\* ---------------------------------------------------------------- C40
\* Context c is the root or is reachable from it through live child contexts.
RECURSIVE Reachable(_)
Reachable(c) ==
    IF c = 1 THEN TRUE
    ELSE LET p == ctxs[c].parent
         IN /\ p # 0 /\ ctxs[p].contextOf[ctxs[c].node] = c
            /\ Reachable(p)

\* An enter callback has just been called.
EnterBegins == TopIs("script") /\ Head(stack).op = "enter" /\ Head(stack).pc = 1

\* C40: an enter callback only ever runs for a context that is reachable
\* from the root through live child contexts; a tell or when issued on a
\* context that was torn down runs no enter callback and creates no live
\* context.
C40_EnterOnlyInLiveContexts == EnterBegins => Reachable(Head(stack).self)

\* The same for the enter callbacks that run while no callback is using a
\* context it kept from an earlier call.
C40_EnterLiveWithoutKeptContext ==
    (EnterBegins /\ \A i \in DOMAIN stack : stack[i].sid # "E_keep") =>
        Reachable(Head(stack).self)

\* A tell made on a context that was torn down has created a context below
\* it and the enter callback of the told state is running for it.
C40_EnterBelowTornDown ==
    /\ EnterBegins /\ ~Reachable(ctxs[Head(stack).self].parent)
    /\ ctxs[ctxs[Head(stack).self].parent].contextOf[ctxs[Head(stack).self].node]
         = Head(stack).self

====
